---------------------------- MODULE Spec2Model ----------------------------
(***************************************************************************)
(* The Craft Catalog Query Engine of craft_tool.py: the three module-level *)
(* tables and the seven query functions, each invoked through its tool     *)
(* wrapper.  Python values are modelled as follows:                        *)
(*   str    a TLA+ string (characters are read with SubSeq)                *)
(*   dict   the sequence of its [key, value] entries in insertion order    *)
(*   list   a sequence                                                     *)
(*   a function's return value: [type |-> "list" | "dict", value |-> v],   *)
(*          since callers tell the two apart with isinstance               *)
(*   float with two decimals (round(x, 2)): the integer number of          *)
(*          hundredths                                                     *)
(***************************************************************************)
EXTENDS Integers, Sequences, FiniteSets, TLC

(***************************************************************************)
(* Bounds of the model.                                                    *)
(***************************************************************************)
\* Longest item_ids list handed to estimate_craft_time.
MaxIds == 3
\* Longest materials list handed to search_crafts_by_materials.
MaxMaterials == 2

(***************************************************************************)
(* Python str operations.                                                  *)
(***************************************************************************)
Char(s, i) == SubSeq(s, i, i)

UpperLetters == "ABCDEFGHIJKLMNOPQRSTUVWXYZ"
LowerLetters == "abcdefghijklmnopqrstuvwxyz"
Digits == "0123456789"

\* The characters str.strip() removes (those that occur in the inputs).
IsSpace(c) == c \in {" ", "\t"}

IsDigit(c) == \E i \in 1..Len(Digits) : Char(Digits, i) = c

\* int(c) for one decimal digit c.
DigitValue(c) == (CHOOSE i \in 1..Len(Digits) : Char(Digits, i) = c) - 1

LowerChar(c) ==
  IF \E i \in 1..Len(UpperLetters) : Char(UpperLetters, i) = c
  THEN Char(LowerLetters, CHOOSE i \in 1..Len(UpperLetters) : Char(UpperLetters, i) = c)
  ELSE c

\* s.lower()
RECURSIVE Lower(_)
Lower(s) ==
  IF s = "" THEN ""
  ELSE LowerChar(Char(s, 1)) \o Lower(SubSeq(s, 2, Len(s)))

RECURSIVE LStrip(_)
LStrip(s) ==
  IF s = "" THEN ""
  ELSE IF IsSpace(Char(s, 1)) THEN LStrip(SubSeq(s, 2, Len(s)))
  ELSE s

RECURSIVE RStrip(_)
RStrip(s) ==
  IF s = "" THEN ""
  ELSE IF IsSpace(Char(s, Len(s))) THEN RStrip(SubSeq(s, 1, Len(s) - 1))
  ELSE s

\* s.strip()
Strip(s) == RStrip(LStrip(s))

\* sub in s
Contains(sub, s) ==
  \E i \in 1..(Len(s) - Len(sub) + 1) : SubSeq(s, i, i + Len(sub) - 1) = sub

\* The longest prefix of s made of decimal digits.
RECURSIVE DigitPrefix(_)
DigitPrefix(s) ==
  IF s = "" THEN ""
  ELSE IF IsDigit(Char(s, 1)) THEN Char(s, 1) \o DigitPrefix(SubSeq(s, 2, Len(s)))
  ELSE ""

\* re.findall(r'\d+', s): the maximal digit runs of s, left to right.
RECURSIVE Findall(_)
Findall(s) ==
  IF s = "" THEN << >>
  ELSE IF IsDigit(Char(s, 1))
       THEN LET run == DigitPrefix(s)
            IN  << run >> \o Findall(SubSeq(s, Len(run) + 1, Len(s)))
       ELSE Findall(SubSeq(s, 2, Len(s)))

\* int(s) for a digit run s.
RECURSIVE ParseInt(_)
ParseInt(s) ==
  IF s = "" THEN 0
  ELSE 10 * ParseInt(SubSeq(s, 1, Len(s) - 1)) + DigitValue(Char(s, Len(s)))

\* Round2 with the quotient cut instead of rounded.
Round2_Truncated(n, d) == (100 * n) \div d

\* round(n / d, 2), in hundredths.  Python rounds the quotient to the nearest
\* hundredth and an exact tie to the even one.
Round2(n, d) ==
  LET q == (100 * n) \div d
      r == (100 * n) % d
  IN  IF 2 * r < d THEN q
      ELSE IF 2 * r > d THEN q + 1
      ELSE IF q % 2 = 0 THEN q ELSE q + 1

(***************************************************************************)
(* Python dict operations.                                                 *)
(***************************************************************************)
\* list(d.keys())
\* The item names in place of the keys.
Keys_Names(d) == [i \in 1..Len(d) |-> d[i].value.name]

Keys(d) == [i \in 1..Len(d) |-> d[i].key]

\* k in d
HasKey(d, k) == \E i \in 1..Len(d) : d[i].key = k

\* d[k]
Lookup(d, k) == d[CHOOSE i \in 1..Len(d) : d[i].key = k].value

\* d.get(k, default)
DictGet(d, k, default) == IF HasKey(d, k) THEN Lookup(d, k) ELSE default

\* The return value of a function, with its Python type.
PyList(v) == [type |-> "list", value |-> v]
PyDict(v) == [type |-> "dict", value |-> v]

\* Python values of any type, as the core function receives them when it is
\* called directly (the annotations are not enforced at run time).
PyStr(s) == [type |-> "str", value |-> s]
PyNone == [type |-> "NoneType", value |-> "None"]
PyInt(digits) == [type |-> "int", value |-> digits]
PyListOf(entries) == [type |-> "list", value |-> entries]
\* A list that is an entry of a list, named by its text.
PyNestedList == [type |-> "list", value |-> "[]"]

(***************************************************************************)
(* The data model and the tables.                                          *)
(***************************************************************************)
CraftItem(name, description, materials, difficulty, time_required, category) ==
  [name |-> name, description |-> description, materials |-> materials,
   difficulty |-> difficulty, time_required |-> time_required,
   category |-> category]

\* item.model_dump(): the dict of the item's fields.
model_dump(item) ==
  [name |-> item.name, description |-> item.description,
   materials |-> item.materials, difficulty |-> item.difficulty,
   time_required |-> item.time_required, category |-> item.category]

ShippedDatabase ==
  << [key |-> "paper_airplane",
      value |-> CraftItem("Paper Airplane",
        "A simple flying paper craft perfect for beginners",
        << "A4 paper", "steady hands" >>,
        "easy", "5 minutes", "paper_crafts")],
     [key |-> "origami_crane",
      value |-> CraftItem("Origami Crane",
        "Traditional Japanese paper folding creating an elegant crane",
        << "Square origami paper" >>,
        "medium", "15-20 minutes", "origami")],
     [key |-> "friendship_bracelet",
      value |-> CraftItem("Friendship Bracelet",
        "Colorful woven bracelet made with embroidery thread",
        << "Embroidery thread (3-4 colors)", "scissors", "tape" >>,
        "medium", "30-45 minutes", "jewelry")],
     [key |-> "painted_rock",
      value |-> CraftItem("Painted Rock",
        "Decorative rock painted with creative designs",
        << "Smooth rock", "acrylic paints", "paintbrushes", "sealant" >>,
        "easy", "1-2 hours (including drying time)", "painting")],
     [key |-> "macrame_plant_hanger",
      value |-> CraftItem("Macrame Plant Hanger",
        "Elegant plant hanger made with knotted cord",
        << "Macrame cord", "metal ring", "scissors", "measuring tape" >>,
        "hard", "2-3 hours", "home_decor")] >>

ShippedInstructions ==
  << [key |-> "paper_airplane",
      value |->
        << "Take an 8.5 x 11 inch piece of paper",
        "Fold the paper in half lengthwise, then unfold",
        "Fold the top corners down to the center crease",
        "Fold the angled edges down to the center crease again",
        "Fold the plane in half along the center crease",
        "Create wings by folding each side down to align with the bottom",
        "Your paper airplane is ready to fly!" >>],
     [key |-> "origami_crane",
      value |->
        << "Start with a square piece of paper, colored side down",
        "Fold diagonally both ways and unfold",
        "Fold horizontally and vertically, then unfold",
        "Bring the three corners down to the bottom corner using creases as guides",
        "Fold the top flaps into the center, repeat on back",
        "Fold the top triangle down, repeat on back",
        "Pull the sides apart gently and flatten to create a diamond",
        "Fold the top points down to create the head and tail",
        "Pull the wings apart gently while holding the body" >>],
     [key |-> "friendship_bracelet",
      value |->
        << "Cut 4 strands of thread, each about 24 inches long",
        "Tie all strands together with a knot, leaving 2 inches of tail",
        "Tape the knot to a flat surface",
        "Separate strands into pairs (A, B, C, D from left to right)",
        "Take strand A over and under strand B, then pull tight",
        "Repeat the knot with strand A over strand B",
        "Move to strand C, repeat the double knot process",
        "Continue pattern until bracelet is desired length",
        "Tie off with a secure knot" >>],
     [key |-> "painted_rock",
      value |->
        << "Find a smooth, clean rock",
        "Wash and dry the rock thoroughly",
        "Apply a base coat of paint if desired, let dry",
        "Sketch your design lightly with pencil",
        "Paint your design with acrylic paints",
        "Allow each color to dry before adding details",
        "Apply a clear sealant to protect the paint",
        "Let dry completely before handling" >>],
     [key |-> "macrame_plant_hanger",
      value |->
        << "Cut 8 cords, each 3 feet long",
        "Fold all cords in half and attach to metal ring with lark's head knots",
        "Measure 6 inches down and tie square knots with groups of 4 cords",
        "Measure 4 inches down and tie another round of square knots",
        "Separate each group of 4 into 2 groups of 2",
        "Take 2 cords from adjacent groups and tie together 4 inches down",
        "Repeat around to create the basket shape",
        "Measure 8 inches down and tie all cords together with a large knot",
        "Trim excess cord to desired length" >>] >>

\* CRAFT_TIPS without the entry of the last catalogue item.
ShippedTips_WithoutMacrame ==
  << [key |-> "paper_airplane",
      value |->
        << "Use crisp folds for better flight performance",
        "Make sure both wings are even for straight flight",
        "Throw with a firm, level motion" >>],
     [key |-> "origami_crane",
      value |->
        << "Use proper origami paper for best results",
        "Make sharp, precise creases",
        "Be patient - it takes practice to master" >>],
     [key |-> "friendship_bracelet",
      value |->
        << "Keep tension consistent for even knots",
        "Use a clipboard to hold your work steady",
        "Choose colors that complement each other" >>],
     [key |-> "painted_rock",
      value |->
        << "Prime the rock with white paint for brighter colors",
        "Use small brushes for detailed work",
        "Work in thin layers to avoid paint drips" >>] >>

ShippedTips ==
  << [key |-> "paper_airplane",
      value |->
        << "Use crisp folds for better flight performance",
        "Make sure both wings are even for straight flight",
        "Throw with a firm, level motion" >>],
     [key |-> "origami_crane",
      value |->
        << "Use proper origami paper for best results",
        "Make sharp, precise creases",
        "Be patient - it takes practice to master" >>],
     [key |-> "friendship_bracelet",
      value |->
        << "Keep tension consistent for even knots",
        "Use a clipboard to hold your work steady",
        "Choose colors that complement each other" >>],
     [key |-> "painted_rock",
      value |->
        << "Prime the rock with white paint for brighter colors",
        "Use small brushes for detailed work",
        "Work in thin layers to avoid paint drips" >>],
     [key |-> "macrame_plant_hanger",
      value |->
        << "Keep cord lengths consistent",
        "Practice basic macrame knots before starting",
        "Choose a pot that fits snugly in the hanger" >>] >>

\* Further catalogue entries the CraftItem schema admits: a duration with
\* "hour" and no number, one with both "hour" and "minute", one with neither,
\* one with "minute" and no number; an item without instructions and one
\* without tips; a stored material with capitals and surrounding blanks.
ExtraDatabase ==
  << [key |-> "clay_pot",
      value |-> CraftItem("Clay Pot",
        "Small pinch pot shaped by hand",
        << "Air-dry clay", "  Acrylic PAINTS " >>,
        "medium", "about an hour", "Pottery")],
     [key |-> "greeting_card",
      value |-> CraftItem("Greeting Card",
        "Folded card with a hand-drawn cover",
        << "Cardstock", "A4 paper" >>,
        "easy", "1 hour 30 minutes", "paper_crafts")],
     [key |-> "doodle",
      value |-> CraftItem("Doodle",
        "Quick pencil sketch",
        << "Pencil" >>,
        "easy", "90 seconds", "drawing")],
     [key |-> "paper_chain",
      value |-> CraftItem("Paper Chain",
        "Chain of linked paper loops",
        << "Paper strips", "tape" >>,
        "easy", "a few minutes", "paper_crafts")] >>

ExtraInstructions ==
  << [key |-> "greeting_card",
      value |-> << "Fold the cardstock in half", "Draw the cover" >>],
     [key |-> "doodle",
      value |-> << "Draw" >>],
     [key |-> "paper_chain",
      value |-> << "Glue a strip into a loop", "Link the next strip through it" >>] >>

ExtraTips ==
  << [key |-> "clay_pot",
      value |-> << "Keep the clay moist while shaping" >>],
     [key |-> "doodle",
      value |-> << "Keep the pencil moving" >>],
     [key |-> "paper_chain",
      value |-> << "Alternate colours" >>] >>

\* The contents the three tables may hold when the functions run: the shipped
\* tables, the shipped tables with the further entries, and empty tables.
Seeds ==
  { [db |-> ShippedDatabase, instructions |-> ShippedInstructions,
     tips |-> ShippedTips],
    [db |-> ShippedDatabase \o ExtraDatabase,
     instructions |-> ShippedInstructions \o ExtraInstructions,
     tips |-> ShippedTips \o ExtraTips],
    [db |-> << >>, instructions |-> << >>, tips |-> << >>] }

(***************************************************************************)
(* Arguments the callers pass.                                             *)
(***************************************************************************)
ItemIdArgs ==
  { "paper_airplane", "origami_crane", "friendship_bracelet", "painted_rock",
    "macrame_plant_hanger", "clay_pot", "greeting_card", "doodle",
    "unicorn_craft", "nonexistent_craft", "Paper_Airplane", "", " ", "  " }

EstimateIds ==
  { "paper_airplane", "origami_crane", "painted_rock", "macrame_plant_hanger",
    "clay_pot", "greeting_card", "doodle", "paper_chain", "nonexistent", "" }

MaterialArgs ==
  { "paper", "unicorn_horn", "A4 paper sheets", " PAPER ", "a4 paper",
    "thread", "paints", "Tape", "", "  " }

\* List entries of any type, and arguments that are no list.
AnyEntryArgs == { PyStr("paper"), PyStr(" "), PyNone, PyInt("42") }

NoListArgs == { PyNone, PyInt("0"), PyInt("42"), PyStr("pa"), PyStr("") }

\* Entries of an item_ids list of any type.
EstimateEntryArgs ==
  { PyStr("paper_airplane"), PyStr("painted_rock"), PyNone, PyInt("42"),
    PyNestedList }

\* Arguments that are no list, for the functions that take a str.
AnyScalarArgs ==
  { PyNone, PyInt("0"), PyInt("42"), PyStr("paper_airplane"),
    PyStr("origami"), PyStr("easy"), PyStr("") }

CategoryArgs ==
  { "paper_crafts", "PAPER_CRAFTS", "origami", "ORIGAMI", "Origami", "pottery",
    "paper", "nonexistent", "", " " }

DifficultyArgs ==
  { "easy", "EASY", "Easy", "medium", "Medium", "hard", "HARD", "impossible",
    "", " ", " easy" }

\* All sequences over S of length at most n.
SeqsUpTo(S, n) == UNION { [1..k -> S] : k \in 0..n }

VARIABLES
  CRAFT_DATABASE,      \* item id -> CraftItem
  CRAFT_INSTRUCTIONS,  \* item id -> list of steps
  CRAFT_TIPS,          \* item id -> list of tips
  call,                \* the last tool call: [op, args]
  result,              \* what it returned
  invocations,         \* the tool calls a hosting process has running at once
  LangGraphCraftAgent, \* langgraph_mcp_simple.py: the fields of the agent
  CraftAssistant,      \* langchain_mcp_example.py: the fields of the assistant
  chats,               \* the chat calls made on the two, each at its step
  delivered,           \* the tokens handed to stream callbacks
  session              \* the interactive chat loop

tables == << CRAFT_DATABASE, CRAFT_INSTRUCTIONS, CRAFT_TIPS >>
\* The chat clients of the server.
clients == << LangGraphCraftAgent, CraftAssistant, chats, delivered, session >>
\* What the one-call-at-a-time server leaves alone.
others == << invocations, clients >>
vars == << CRAFT_DATABASE, CRAFT_INSTRUCTIONS, CRAFT_TIPS, call, result, others >>

(***************************************************************************)
(* The core functions, over the tables they read.                          *)
(***************************************************************************)
\* The loop "for item_id, item in db.items(): if <test>: results.append(<record>)":
\* records[i] is the record built for the i-th entry and keep[i] tells whether
\* the entry passes the test; the result holds the kept records in entry order.
RECURSIVE Collect(_, _)
Collect(records, keep) ==
  IF records = << >> THEN << >>
  ELSE (IF Head(keep) THEN << Head(records) >> ELSE << >>)
         \o Collect(Tail(records), Tail(keep))

\* _list_craft_items with the first entry left out.
list_craft_items_SkipFirst(db) ==
  PyList(Collect(
    [i \in 1..Len(db) |->
       [id |-> db[i].key, name |-> db[i].value.name,
        description |-> db[i].value.description,
        difficulty |-> db[i].value.difficulty,
        time_required |-> db[i].value.time_required,
        category |-> db[i].value.category]],
    [i \in 1..Len(db) |-> i > 1]))

_list_craft_items(db) ==
  PyList(Collect(
    [i \in 1..Len(db) |->
       [id |-> db[i].key, name |-> db[i].value.name,
        description |-> db[i].value.description,
        difficulty |-> db[i].value.difficulty,
        time_required |-> db[i].value.time_required,
        category |-> db[i].value.category]],
    [i \in 1..Len(db) |-> TRUE]))

\* _get_craft_details with a not-found message that leaves the id out.
get_craft_details_NoIdInMessage(item_id, db, instructions, tips) ==
  IF item_id = "" THEN PyDict([error |-> "Item ID cannot be empty"])
  ELSE IF ~HasKey(db, item_id)
  THEN PyDict([error |-> "Craft item not found"])
  ELSE PyDict([item |-> model_dump(Lookup(db, item_id)),
               instructions |-> DictGet(instructions, item_id, << >>),
               tips |-> DictGet(tips, item_id, << >>)])

\* _get_craft_details without its check for an empty id.
get_craft_details_NoEmptyCheck(item_id, db, instructions, tips) ==
  IF ~HasKey(db, item_id)
  THEN PyDict([error |-> "Craft item '" \o item_id \o "' not found"])
  ELSE PyDict([item |-> model_dump(Lookup(db, item_id)),
               instructions |-> DictGet(instructions, item_id, << >>),
               tips |-> DictGet(tips, item_id, << >>)])

\* _get_craft_details with the tips read from the instruction table.
get_craft_details_TipsFromInstructions(item_id, db, instructions, tips) ==
  IF item_id = "" THEN PyDict([error |-> "Item ID cannot be empty"])
  ELSE IF ~HasKey(db, item_id)
  THEN PyDict([error |-> "Craft item '" \o item_id \o "' not found"])
  ELSE PyDict([item |-> model_dump(Lookup(db, item_id)),
               instructions |-> DictGet(instructions, item_id, << >>),
               tips |-> DictGet(instructions, item_id, << >>)])

_get_craft_details(item_id, db, instructions, tips) ==
  IF item_id = "" THEN PyDict([error |-> "Item ID cannot be empty"])
  ELSE IF ~HasKey(db, item_id)
  THEN PyDict([error |-> "Craft item '" \o item_id \o "' not found"])
  ELSE PyDict([item |-> model_dump(Lookup(db, item_id)),
               instructions |-> DictGet(instructions, item_id, << >>),
               tips |-> DictGet(tips, item_id, << >>)])

\* _search_crafts_by_category with the argument compared as given, not
\* lower-cased.
search_crafts_by_category_ArgumentCaseKept(category, db) ==
  IF category = "" THEN PyDict([error |-> "Category cannot be empty"])
  ELSE PyList(Collect(
         [i \in 1..Len(db) |->
            [id |-> db[i].key, name |-> db[i].value.name,
             description |-> db[i].value.description,
             difficulty |-> db[i].value.difficulty,
             time_required |-> db[i].value.time_required]],
         [i \in 1..Len(db) |-> Lower(db[i].value.category) = category]))

\* _search_crafts_by_category matching a category that contains the argument.
search_crafts_by_category_Substring(category, db) ==
  IF category = "" THEN PyDict([error |-> "Category cannot be empty"])
  ELSE PyList(Collect(
         [i \in 1..Len(db) |->
            [id |-> db[i].key, name |-> db[i].value.name,
             description |-> db[i].value.description,
             difficulty |-> db[i].value.difficulty,
             time_required |-> db[i].value.time_required]],
         [i \in 1..Len(db) |->
            Contains(Lower(category), Lower(db[i].value.category))]))

_search_crafts_by_category(category, db) ==
  IF category = "" THEN PyDict([error |-> "Category cannot be empty"])
  ELSE PyList(Collect(
         [i \in 1..Len(db) |->
            [id |-> db[i].key, name |-> db[i].value.name,
             description |-> db[i].value.description,
             difficulty |-> db[i].value.difficulty,
             time_required |-> db[i].value.time_required]],
         [i \in 1..Len(db) |-> Lower(db[i].value.category) = Lower(category)]))

\* _search_crafts_by_difficulty with "hard" missing from the valid levels.
search_crafts_by_difficulty_NoHard(difficulty, db) ==
  IF difficulty = "" THEN PyDict([error |-> "Difficulty cannot be empty"])
  ELSE IF Lower(difficulty) \notin {"easy", "medium"}
  THEN PyDict([error |-> "Difficulty must be 'easy', 'medium', or 'hard'"])
  ELSE PyList(Collect(
         [i \in 1..Len(db) |->
            [id |-> db[i].key, name |-> db[i].value.name,
             description |-> db[i].value.description,
             category |-> db[i].value.category,
             time_required |-> db[i].value.time_required]],
         [i \in 1..Len(db) |-> Lower(db[i].value.difficulty) = Lower(difficulty)]))

\* _search_crafts_by_difficulty that answers every argument with a search.
search_crafts_by_difficulty_NoValidation(difficulty, db) ==
  PyList(Collect(
    [i \in 1..Len(db) |->
       [id |-> db[i].key, name |-> db[i].value.name,
        description |-> db[i].value.description,
        category |-> db[i].value.category,
        time_required |-> db[i].value.time_required]],
    [i \in 1..Len(db) |-> Lower(db[i].value.difficulty) = Lower(difficulty)]))

_search_crafts_by_difficulty(difficulty, db) ==
  IF difficulty = "" THEN PyDict([error |-> "Difficulty cannot be empty"])
  ELSE IF Lower(difficulty) \notin {"easy", "medium", "hard"}
  THEN PyDict([error |-> "Difficulty must be 'easy', 'medium', or 'hard'"])
  ELSE PyList(Collect(
         [i \in 1..Len(db) |->
            [id |-> db[i].key, name |-> db[i].value.name,
             description |-> db[i].value.description,
             category |-> db[i].value.category,
             time_required |-> db[i].value.time_required]],
         [i \in 1..Len(db) |-> Lower(db[i].value.difficulty) = Lower(difficulty)]))

\* MaterialsLower without the strip of the kept entries.
MaterialsLower_NoStrip(materials) ==
  Collect([i \in 1..Len(materials) |-> Lower(materials[i])],
          [i \in 1..Len(materials) |-> Strip(materials[i]) # ""])

\* materials_lower: the requested entries that are not blank, lower-cased and
\* stripped.
MaterialsLower(materials) ==
  Collect([i \in 1..Len(materials) |-> Strip(Lower(materials[i]))],
          [i \in 1..Len(materials) |-> Strip(materials[i]) # ""])

\* item_materials_lower of one item.
ItemMaterialsLower(item) ==
  [j \in 1..Len(item.materials) |-> Strip(Lower(item.materials[j]))]

\* MaterialsMatch with containment accepted in either direction.
MaterialsMatch_EitherDirection(materials_lower, item) ==
  \E a \in 1..Len(materials_lower) :
    \E j \in 1..Len(item.materials) :
      \/ Contains(materials_lower[a], ItemMaterialsLower(item)[j])
      \/ Contains(ItemMaterialsLower(item)[j], materials_lower[a])

\* any(available in item_mat for available in materials_lower
\*                           for item_mat in item_materials_lower)
MaterialsMatch(materials_lower, item) ==
  \E a \in 1..Len(materials_lower) :
    \E j \in 1..Len(item.materials) :
      Contains(materials_lower[a], ItemMaterialsLower(item)[j])

\* _search_crafts_by_materials appending a record for every requested
\* material that matches an item, not one per item.
search_crafts_by_materials_RecordPerMaterial(materials, db) ==
  IF materials = << >> THEN PyList(<< >>)
  ELSE IF MaterialsLower(materials) = << >> THEN PyList(<< >>)
  ELSE LET n == Len(MaterialsLower(materials))
           entry(k) == ((k - 1) \div n) + 1
           available(k) == ((k - 1) % n) + 1
       IN  PyList(Collect(
             [k \in 1..(Len(db) * n) |->
                [id |-> db[entry(k)].key, name |-> db[entry(k)].value.name,
                 description |-> db[entry(k)].value.description,
                 materials_needed |-> db[entry(k)].value.materials,
                 difficulty |-> db[entry(k)].value.difficulty,
                 time_required |-> db[entry(k)].value.time_required]],
             [k \in 1..(Len(db) * n) |->
                MaterialsMatch(<< MaterialsLower(materials)[available(k)] >>,
                               db[entry(k)].value)]))

_search_crafts_by_materials(materials, db) ==
  IF materials = << >> THEN PyList(<< >>)
  ELSE IF MaterialsLower(materials) = << >> THEN PyList(<< >>)
  ELSE PyList(Collect(
         [i \in 1..Len(db) |->
            [id |-> db[i].key, name |-> db[i].value.name,
             description |-> db[i].value.description,
             materials_needed |-> db[i].value.materials,
             difficulty |-> db[i].value.difficulty,
             time_required |-> db[i].value.time_required]],
         [i \in 1..Len(db) |->
            MaterialsMatch(MaterialsLower(materials), db[i].value)]))

\* The characters of a str, as iterating over it yields them.
Chars(s) == [i \in 1..Len(s) |-> Char(s, i)]

\* SearchMaterialsAnyValue with the except branch returning an error mapping,
\* as the except branches of the other functions do.
SearchMaterialsAnyValue_ErrorOnException(materials, db) ==
  IF materials.type = "NoneType" THEN PyList(<< >>)
  ELSE IF materials.type = "int"
  THEN IF materials.value = "0" THEN PyList(<< >>)
       ELSE PyDict([error |-> "Failed to search by materials"])
  ELSE IF materials.type = "str"
  THEN _search_crafts_by_materials(Chars(materials.value), db)
  ELSE IF materials.value = << >> THEN PyList(<< >>)
  ELSE IF \E a \in 1..Len(materials.value) : materials.value[a].type # "str"
  THEN PyDict([error |-> "Failed to search by materials"])
  ELSE _search_crafts_by_materials(
         [a \in 1..Len(materials.value) |-> materials.value[a].value], db)

\* _search_crafts_by_materials on an argument of any type.  None and 0 are
\* falsy ("not materials"); len() of another int raises TypeError; a str is
\* iterated character by character; a list entry that is no str has no strip()
\* and raises AttributeError.  The except branch returns the empty list.
SearchMaterialsAnyValue(materials, db) ==
  IF materials.type = "NoneType" THEN PyList(<< >>)
  ELSE IF materials.type = "int" THEN PyList(<< >>)
  ELSE IF materials.type = "str"
  THEN _search_crafts_by_materials(Chars(materials.value), db)
  ELSE IF materials.value = << >> THEN PyList(<< >>)
  ELSE IF \E a \in 1..Len(materials.value) : materials.value[a].type # "str"
  THEN PyList(<< >>)
  ELSE _search_crafts_by_materials(
         [a \in 1..Len(materials.value) |-> materials.value[a].value], db)

\* TimeContribution with the last number of the text (the upper end of a
\* range) taken instead of the first.
TimeContribution_LastNumber(time_required, re_bound) ==
  LET time_str == Lower(time_required)
      numbers == Findall(time_str)
  IN  IF Contains("minute", time_str)
      THEN IF numbers # << >> THEN ParseInt(numbers[Len(numbers)]) ELSE 0
      ELSE IF Contains("hour", time_str)
      THEN IF re_bound
           THEN IF numbers # << >> THEN ParseInt(numbers[Len(numbers)]) * 60 ELSE 0
           ELSE 0
      ELSE 0

\* The minutes one valid item adds to total_time.  "import re" stands inside
\* the "minute" branch, which makes re a local name of the whole function, bound
\* only once that branch has run in this call (re_bound).  In the "hour" branch
\* re.findall raises UnboundLocalError while re is unbound; the inner except
\* catches it and the item adds nothing.
TimeContribution(time_required, re_bound) ==
  LET time_str == Lower(time_required)
      numbers == Findall(time_str)
  IN  IF Contains("minute", time_str)
      THEN IF numbers # << >> THEN ParseInt(numbers[1]) ELSE 0
      ELSE IF Contains("hour", time_str)
      THEN IF re_bound
           THEN IF numbers # << >> THEN ParseInt(numbers[1]) * 60 ELSE 0
           ELSE 0
      ELSE 0

\* EstimateStep with a repeated id not listed again.
EstimateStep_SkipRepeated(locals, item_id, db) ==
  IF HasKey(db, item_id)
  THEN LET item == Lookup(db, item_id)
           seen == \E k \in 1..Len(locals.valid_items) :
                     locals.valid_items[k].id = item_id
       IN  [total_time |->
              locals.total_time + TimeContribution(item.time_required, locals.re_bound),
            valid_items |->
              IF seen THEN locals.valid_items
              ELSE Append(locals.valid_items,
                     [id |-> item_id, name |-> item.name, time |-> item.time_required]),
            invalid_items |-> locals.invalid_items,
            re_bound |->
              locals.re_bound \/ Contains("minute", Lower(item.time_required))]
  ELSE [locals EXCEPT !.invalid_items = Append(@, item_id)]

\* One iteration of the loop over item_ids, on the locals total_time,
\* valid_items, invalid_items and re.
EstimateStep(locals, item_id, db) ==
  IF HasKey(db, item_id)
  THEN LET item == Lookup(db, item_id)
       IN  [total_time |->
              locals.total_time + TimeContribution(item.time_required, locals.re_bound),
            valid_items |->
              Append(locals.valid_items,
                     [id |-> item_id, name |-> item.name, time |-> item.time_required]),
            invalid_items |-> locals.invalid_items,
            re_bound |->
              locals.re_bound \/ Contains("minute", Lower(item.time_required))]
  ELSE [locals EXCEPT !.invalid_items = Append(@, item_id)]

\* for item_id in item_ids: ...
RECURSIVE EstimateLoop(_, _, _)
EstimateLoop(locals, item_ids, db) ==
  IF item_ids = << >> THEN locals
  ELSE EstimateLoop(EstimateStep(locals, Head(item_ids), db), Tail(item_ids), db)

\* The locals before the loop.
EstimateLocals ==
  [total_time |-> 0, valid_items |-> << >>, invalid_items |-> << >>,
   re_bound |-> FALSE]

\* _estimate_craft_time without its check for an empty list.
estimate_craft_time_NoEmptyCheck(item_ids, db) ==
  LET locals == EstimateLoop(EstimateLocals, item_ids, db)
  IN  PyDict([valid_items |-> locals.valid_items,
              invalid_items |-> locals.invalid_items,
              estimated_total_minutes |-> locals.total_time,
              estimated_total_hours |-> Round2(locals.total_time, 60)])

_estimate_craft_time(item_ids, db) ==
  IF item_ids = << >> THEN PyDict([error |-> "Item IDs list cannot be empty"])
  ELSE LET locals == EstimateLoop(EstimateLocals, item_ids, db)
       IN  PyDict([valid_items |-> locals.valid_items,
                   invalid_items |-> locals.invalid_items,
                   estimated_total_minutes |-> locals.total_time,
                   estimated_total_hours |-> Round2(locals.total_time, 60)])

(***************************************************************************)
(* The core functions on arguments of any type.  The annotations are not   *)
(* enforced when a core function is called directly.  None, 0, "" and []   *)
(* are falsy; an int and a list have no lower(); a list is unhashable and  *)
(* cannot be looked up in a dict; an int has no len().  The exception is   *)
(* caught by the function's "except Exception" and becomes its message.    *)
(***************************************************************************)
Falsy(v) ==
  \/ v.type = "NoneType"
  \/ v.type = "int" /\ v.value = "0"
  \/ v.type = "str" /\ v.value = ""
  \/ v.type = "list" /\ v.value = << >>

\* _get_craft_details with no try/except around its body: the TypeError of
\* the lookup leaves the function.
GetCraftDetailsAnyValue_Unguarded(item_id, db, instructions, tips) ==
  IF Falsy(item_id) THEN PyDict([error |-> "Item ID cannot be empty"])
  ELSE IF item_id.type = "list"
  THEN [type |-> "exception", value |-> "TypeError"]
  ELSE _get_craft_details(item_id.value, db, instructions, tips)

GetCraftDetailsAnyValue(item_id, db, instructions, tips) ==
  IF Falsy(item_id) THEN PyDict([error |-> "Item ID cannot be empty"])
  ELSE IF item_id.type = "list"
  THEN PyDict([error |-> "Failed to get craft details: unhashable type: 'list'"])
  ELSE _get_craft_details(item_id.value, db, instructions, tips)

SearchCategoryAnyValue(category, db) ==
  IF Falsy(category) THEN PyDict([error |-> "Category cannot be empty"])
  ELSE IF category.type = "str" THEN _search_crafts_by_category(category.value, db)
  ELSE IF db = << >> THEN PyList(<< >>)
  ELSE PyDict([error |-> "Failed to search by category: '" \o category.type
                           \o "' object has no attribute 'lower'"])

SearchDifficultyAnyValue(difficulty, db) ==
  IF Falsy(difficulty) THEN PyDict([error |-> "Difficulty cannot be empty"])
  ELSE IF difficulty.type = "str"
  THEN _search_crafts_by_difficulty(difficulty.value, db)
  ELSE PyDict([error |-> "Failed to search by difficulty: '" \o difficulty.type
                           \o "' object has no attribute 'lower'"])

\* The str entries of a list, in order.
StrEntries(entries) ==
  Collect([a \in 1..Len(entries) |-> entries[a].value],
          [a \in 1..Len(entries) |-> entries[a].type = "str"])

\* The entries that are no key of the table, in order: invalid_items.
InvalidEntries(entries, db) ==
  Collect(entries,
          [a \in 1..Len(entries) |->
             IF entries[a].type = "str" THEN ~HasKey(db, entries[a].value)
             ELSE TRUE])

\* _estimate_craft_time on an argument of any type.  A str is iterated
\* character by character.  An entry that is no str is hashable and no key, so
\* it goes to invalid_items, unless it is a list, whose lookup raises
\* TypeError outside the inner try.  invalid_items holds the entries with
\* their types.
EstimateAnyValue(item_ids, db) ==
  IF Falsy(item_ids) THEN PyDict([error |-> "Item IDs list cannot be empty"])
  ELSE IF item_ids.type = "int"
  THEN PyDict([error |->
         "Failed to estimate craft time: object of type 'int' has no len()"])
  ELSE LET entries == IF item_ids.type = "str"
                      THEN [a \in 1..Len(item_ids.value) |->
                              PyStr(Chars(item_ids.value)[a])]
                      ELSE item_ids.value
           locals == EstimateLoop(EstimateLocals, StrEntries(entries), db)
       IN  IF \E a \in 1..Len(entries) : entries[a].type = "list"
           THEN PyDict([error |->
                  "Failed to estimate craft time: unhashable type: 'list'"])
           ELSE PyDict([valid_items |-> locals.valid_items,
                        invalid_items |-> InvalidEntries(entries, db),
                        estimated_total_minutes |-> locals.total_time,
                        estimated_total_hours |-> Round2(locals.total_time, 60)])

(***************************************************************************)
(* The state machine.  The tables are filled when the module is loaded.    *)
(* The server serves one tool call at a time: a tool wrapper runs its core *)
(* function to completion and the return value goes back to the caller     *)
(* before the next call is taken.                                          *)
(***************************************************************************)
NoCall == [op |-> "none", args |-> << >>]
NoResult == [type |-> "none", value |-> << >>]

\* Bound: the number of tool calls running at once.
MaxInvocations == 2

\* A slot with no call in it.
IdleInvocation ==
  [state |-> "idle", op |-> "none", args |-> << >>, rest |-> << >>,
   locals |-> EstimateLocals, result |-> NoResult]

NoInvocations == [p \in 1..MaxInvocations |-> IdleInvocation]

\* The tables as the module's top level fills them.
TablesLoaded ==
  \E seed \in Seeds :
    /\ CRAFT_DATABASE = seed.db
    /\ CRAFT_INSTRUCTIONS = seed.instructions
    /\ CRAFT_TIPS = seed.tips

\* Bound: the number of chat calls in progress at once.
MaxChats == 2

\* Bound: the number of lines an interactive session reads.
MaxLines == 3

\* self.stream_callback = None.  The callback passed to chat call c is named c.
NoCallback == 0

\* LangGraphCraftAgent.__init__ (initialized: initialize() has returned True).
NewLangGraphCraftAgent ==
  [mcp_agent |-> "None", llm |-> "None", graph_app |-> "None",
   stream_callback |-> NoCallback, initialized |-> FALSE]

\* CraftAssistant.__init__ (initialized: setup() has returned True).
NewCraftAssistant ==
  [client |-> "None", agent |-> "None", initialized |-> FALSE]

\* No chat call.  A call records the object it is made on, the callback it
\* was given, whether initialize/setup had succeeded when it was made, how
\* often it ran the MCP agent and how that run ended.
NoChat ==
  [on |-> "none", state |-> "idle", stream_callback |-> NoCallback,
   ready |-> FALSE, agent_runs |-> 0, agent_outcome |-> "none",
   response |-> ""]

\* No interactive session.
NoSession ==
  [kind |-> "none", pc |-> "none", user_input |-> "", lines |-> 0,
   forwarded |-> << >>, closed |-> 0, ended |-> "no"]

Init ==
  /\ TablesLoaded
  /\ call = NoCall
  /\ result = NoResult
  /\ invocations = NoInvocations
  /\ LangGraphCraftAgent = NewLangGraphCraftAgent
  /\ CraftAssistant = NewCraftAssistant
  /\ chats = [c \in 1..MaxChats |-> NoChat]
  /\ delivered = {}
  /\ session = NoSession

list_craft_items ==
  /\ call = NoCall
  /\ call' = [op |-> "list_craft_items", args |-> << >>]
  /\ result' = _list_craft_items(CRAFT_DATABASE)
  /\ UNCHANGED << tables, others >>

\* get_craft_details reading the instructions with setdefault, which stores an
\* empty list for an item that has none.
get_craft_details_SetDefault ==
  /\ call = NoCall
  /\ \E item_id \in ItemIdArgs :
       /\ call' = [op |-> "get_craft_details", args |-> << item_id >>]
       /\ result' = _get_craft_details(item_id, CRAFT_DATABASE,
                                       CRAFT_INSTRUCTIONS, CRAFT_TIPS)
       /\ CRAFT_INSTRUCTIONS' =
            IF HasKey(CRAFT_DATABASE, item_id) /\ ~HasKey(CRAFT_INSTRUCTIONS, item_id)
            THEN Append(CRAFT_INSTRUCTIONS, [key |-> item_id, value |-> << >>])
            ELSE CRAFT_INSTRUCTIONS
  /\ UNCHANGED << CRAFT_DATABASE, CRAFT_TIPS, others >>

get_craft_details ==
  /\ call = NoCall
  /\ \E item_id \in ItemIdArgs :
       /\ call' = [op |-> "get_craft_details", args |-> << item_id >>]
       /\ result' = _get_craft_details(item_id, CRAFT_DATABASE,
                                       CRAFT_INSTRUCTIONS, CRAFT_TIPS)
  /\ UNCHANGED << tables, others >>

search_crafts_by_category ==
  /\ call = NoCall
  /\ \E category \in CategoryArgs :
       /\ call' = [op |-> "search_crafts_by_category", args |-> << category >>]
       /\ result' = _search_crafts_by_category(category, CRAFT_DATABASE)
  /\ UNCHANGED << tables, others >>

search_crafts_by_difficulty ==
  /\ call = NoCall
  /\ \E difficulty \in DifficultyArgs :
       /\ call' = [op |-> "search_crafts_by_difficulty", args |-> << difficulty >>]
       /\ result' = _search_crafts_by_difficulty(difficulty, CRAFT_DATABASE)
  /\ UNCHANGED << tables, others >>

\* random.choice picks any key of the table.
get_random_craft ==
  /\ call = NoCall
  /\ call' = [op |-> "get_random_craft", args |-> << >>]
  /\ IF CRAFT_DATABASE = << >>
     THEN result' = PyDict([error |-> "No crafts available in database"])
     ELSE \E i \in 1..Len(CRAFT_DATABASE) :
            result' = _get_craft_details(Keys(CRAFT_DATABASE)[i], CRAFT_DATABASE,
                                         CRAFT_INSTRUCTIONS, CRAFT_TIPS)
  /\ UNCHANGED << tables, others >>

search_crafts_by_materials ==
  /\ call = NoCall
  /\ \E materials \in SeqsUpTo(MaterialArgs, MaxMaterials) :
       /\ call' = [op |-> "search_crafts_by_materials", args |-> << materials >>]
       /\ result' = _search_crafts_by_materials(materials, CRAFT_DATABASE)
  /\ UNCHANGED << tables, others >>

\* A direct call of the core function with the given argument of any type.
CallSearchMaterialsAnyValue(materials) ==
  /\ call' = [op |-> "_search_crafts_by_materials", args |-> << materials >>]
  /\ result' = SearchMaterialsAnyValue(materials, CRAFT_DATABASE)

search_crafts_by_materials_any_value ==
  /\ call = NoCall
  /\ \/ \E materials \in NoListArgs : CallSearchMaterialsAnyValue(materials)
     \/ \E entries \in SeqsUpTo(AnyEntryArgs, MaxMaterials) :
          CallSearchMaterialsAnyValue(PyListOf(entries))
  /\ UNCHANGED << tables, others >>

\* Direct calls of the other core functions with an argument of any type.
get_craft_details_any_value ==
  /\ call = NoCall
  /\ \/ \E item_id \in AnyScalarArgs :
          /\ call' = [op |-> "_get_craft_details", args |-> << item_id >>]
          /\ result' = GetCraftDetailsAnyValue(item_id, CRAFT_DATABASE,
                                               CRAFT_INSTRUCTIONS, CRAFT_TIPS)
     \/ \E entries \in SeqsUpTo(AnyEntryArgs, MaxMaterials) :
          /\ call' = [op |-> "_get_craft_details",
                      args |-> << PyListOf(entries) >>]
          /\ result' = GetCraftDetailsAnyValue(PyListOf(entries), CRAFT_DATABASE,
                                               CRAFT_INSTRUCTIONS, CRAFT_TIPS)
  /\ UNCHANGED << tables, others >>

search_crafts_by_category_any_value ==
  /\ call = NoCall
  /\ \/ \E category \in AnyScalarArgs :
          /\ call' = [op |-> "_search_crafts_by_category",
                      args |-> << category >>]
          /\ result' = SearchCategoryAnyValue(category, CRAFT_DATABASE)
     \/ \E entries \in SeqsUpTo(AnyEntryArgs, MaxMaterials) :
          /\ call' = [op |-> "_search_crafts_by_category",
                      args |-> << PyListOf(entries) >>]
          /\ result' = SearchCategoryAnyValue(PyListOf(entries), CRAFT_DATABASE)
  /\ UNCHANGED << tables, others >>

search_crafts_by_difficulty_any_value ==
  /\ call = NoCall
  /\ \/ \E difficulty \in AnyScalarArgs :
          /\ call' = [op |-> "_search_crafts_by_difficulty",
                      args |-> << difficulty >>]
          /\ result' = SearchDifficultyAnyValue(difficulty, CRAFT_DATABASE)
     \/ \E entries \in SeqsUpTo(AnyEntryArgs, MaxMaterials) :
          /\ call' = [op |-> "_search_crafts_by_difficulty",
                      args |-> << PyListOf(entries) >>]
          /\ result' = SearchDifficultyAnyValue(PyListOf(entries), CRAFT_DATABASE)
  /\ UNCHANGED << tables, others >>

estimate_craft_time_any_value ==
  /\ call = NoCall
  /\ \/ \E item_ids \in NoListArgs :
          /\ call' = [op |-> "_estimate_craft_time", args |-> << item_ids >>]
          /\ result' = EstimateAnyValue(item_ids, CRAFT_DATABASE)
     \/ \E entries \in SeqsUpTo(EstimateEntryArgs, MaxMaterials) :
          /\ call' = [op |-> "_estimate_craft_time",
                      args |-> << PyListOf(entries) >>]
          /\ result' = EstimateAnyValue(PyListOf(entries), CRAFT_DATABASE)
  /\ UNCHANGED << tables, others >>

estimate_craft_time ==
  /\ call = NoCall
  /\ \E item_ids \in SeqsUpTo(EstimateIds, MaxIds) :
       /\ call' = [op |-> "estimate_craft_time", args |-> << item_ids >>]
       /\ result' = _estimate_craft_time(item_ids, CRAFT_DATABASE)
  /\ UNCHANGED << tables, others >>

\* The return value is handed to the caller; the server takes the next call.
Return ==
  /\ call # NoCall
  /\ call' = NoCall
  /\ result' = NoResult
  /\ UNCHANGED << tables, others >>

Next ==
  \/ list_craft_items
  \/ get_craft_details
  \/ search_crafts_by_category
  \/ search_crafts_by_difficulty
  \/ get_random_craft
  \/ search_crafts_by_materials
  \/ search_crafts_by_materials_any_value
  \/ get_craft_details_any_value
  \/ search_crafts_by_category_any_value
  \/ search_crafts_by_difficulty_any_value
  \/ estimate_craft_time_any_value
  \/ estimate_craft_time
  \/ Return

Spec == Init /\ [][Next]_vars

(***************************************************************************)
(* A hosting process that dispatches several tool calls at once            *)
(* (mcp.run).  Each call runs the core function in a frame of its own:     *)
(* the arguments and, in _estimate_craft_time, the locals total_time,      *)
(* valid_items, invalid_items and re belong to the call.  The loop of      *)
(* _estimate_craft_time takes one step per id, and the calls interleave    *)
(* between the steps.                                                      *)
(***************************************************************************)
\* The lists of ids and the other arguments the concurrent calls are made
\* with.
ConcurrentEstimates ==
  { << >>, << "painted_rock" >>, << "paper_airplane", "painted_rock" >>,
    << "painted_rock", "paper_airplane" >> }

ConcurrentItemIds == { "paper_airplane", "nonexistent_craft" }

\* Begin with the totals kept in module-level names that are not reset: a
\* call starts with what a finished call left in them.
Begin_TotalsNotReset(p, op, args) ==
  invocations' =
    [invocations EXCEPT ![p] =
       [state |-> "running", op |-> op, args |-> args,
        rest |-> IF op = "estimate_craft_time" THEN args[1] ELSE << >>,
        locals |->
          IF \E q \in 1..MaxInvocations : invocations[q].state = "done"
          THEN invocations[CHOOSE q \in 1..MaxInvocations :
                             invocations[q].state = "done"].locals
          ELSE EstimateLocals,
        result |-> NoResult]]

\* Slot p starts a call: total_time = 0, valid_items = [], invalid_items = [].
Begin(p, op, args) ==
  invocations' =
    [invocations EXCEPT ![p] =
       [state |-> "running", op |-> op, args |-> args,
        rest |-> IF op = "estimate_craft_time" THEN args[1] ELSE << >>,
        locals |-> EstimateLocals,
        result |-> NoResult]]

invoke ==
  /\ \E p \in 1..MaxInvocations :
       /\ invocations[p].state = "idle"
       /\ \/ Begin(p, "list_craft_items", << >>)
          \/ \E item_id \in ConcurrentItemIds :
               Begin(p, "get_craft_details", << item_id >>)
          \/ Begin(p, "search_crafts_by_category", << "origami" >>)
          \/ Begin(p, "search_crafts_by_difficulty", << "easy" >>)
          \/ Begin(p, "get_random_craft", << >>)
          \/ Begin(p, "search_crafts_by_materials", << << "paper" >> >>)
          \/ \E item_ids \in ConcurrentEstimates :
               Begin(p, "estimate_craft_time", << item_ids >>)
  /\ UNCHANGED << tables, call, result, clients >>

\* One iteration of the loop reading the locals of another running call, as
\* it would with the totals kept in module-level names.
StepLocals_Shared(p) ==
  IF \E q \in 1..MaxInvocations :
       q # p /\ invocations[q].state = "running"
             /\ invocations[q].op = "estimate_craft_time"
  THEN invocations[CHOOSE q \in 1..MaxInvocations :
                     q # p /\ invocations[q].state = "running"
                           /\ invocations[q].op = "estimate_craft_time"].locals
  ELSE invocations[p].locals

\* The locals an iteration of call p works on: its own.
StepLocals(p) == invocations[p].locals

\* One iteration of "for item_id in item_ids" in one of the running calls.
step ==
  /\ \E p \in 1..MaxInvocations :
       /\ invocations[p].state = "running"
       /\ invocations[p].rest # << >>
       /\ invocations' =
            [invocations EXCEPT
               ![p].locals = EstimateStep(StepLocals(p), Head(invocations[p].rest),
                                          CRAFT_DATABASE),
               ![p].rest = Tail(@)]
  /\ UNCHANGED << tables, call, result, clients >>

\* What a call returns once its loop, if it has one, is through.
Completed(p, r) ==
  invocations' = [invocations EXCEPT ![p].state = "done", ![p].result = r]

complete ==
  /\ \E p \in 1..MaxInvocations :
       LET c == invocations[p]
       IN  /\ c.state = "running"
           /\ c.rest = << >>
           /\ \/ /\ c.op = "list_craft_items"
                 /\ Completed(p, _list_craft_items(CRAFT_DATABASE))
              \/ /\ c.op = "get_craft_details"
                 /\ Completed(p, _get_craft_details(c.args[1], CRAFT_DATABASE,
                                                    CRAFT_INSTRUCTIONS, CRAFT_TIPS))
              \/ /\ c.op = "search_crafts_by_category"
                 /\ Completed(p, _search_crafts_by_category(c.args[1], CRAFT_DATABASE))
              \/ /\ c.op = "search_crafts_by_difficulty"
                 /\ Completed(p, _search_crafts_by_difficulty(c.args[1], CRAFT_DATABASE))
              \/ /\ c.op = "get_random_craft"
                 /\ IF CRAFT_DATABASE = << >>
                    THEN Completed(p, PyDict([error |-> "No crafts available in database"]))
                    ELSE \E i \in 1..Len(CRAFT_DATABASE) :
                           Completed(p, _get_craft_details(
                                          Keys(CRAFT_DATABASE)[i], CRAFT_DATABASE,
                                          CRAFT_INSTRUCTIONS, CRAFT_TIPS))
              \/ /\ c.op = "search_crafts_by_materials"
                 /\ Completed(p, _search_crafts_by_materials(c.args[1], CRAFT_DATABASE))
              \/ /\ c.op = "estimate_craft_time"
                 /\ Completed(p,
                      IF c.args[1] = << >>
                      THEN PyDict([error |-> "Item IDs list cannot be empty"])
                      ELSE PyDict([valid_items |-> c.locals.valid_items,
                                   invalid_items |-> c.locals.invalid_items,
                                   estimated_total_minutes |-> c.locals.total_time,
                                   estimated_total_hours |->
                                     Round2(c.locals.total_time, 60)]))
  /\ UNCHANGED << tables, call, result, clients >>

\* The return value goes back to the caller and the slot is free again.
respond ==
  /\ \E p \in 1..MaxInvocations :
       /\ invocations[p].state = "done"
       /\ invocations' = [invocations EXCEPT ![p] = IdleInvocation]
  /\ UNCHANGED << tables, call, result, clients >>

ConcurrentNext ==
  \/ invoke
  \/ step
  \/ complete
  \/ respond

ConcurrentSpec == Init /\ [][ConcurrentNext]_vars

(***************************************************************************)
(* The chat clients: LangGraphCraftAgent (langgraph_mcp_simple.py) and     *)
(* CraftAssistant (langchain_mcp_example.py).  chat is a coroutine: a call *)
(* runs up to its await, and other calls on the same object run while the  *)
(* MCP agent works on it.                                                  *)
(***************************************************************************)
\* initialize() builds the MCP client, the LLM, the MCP agent and the graph in
\* this order inside one try; a constructor that raises leaves the later
\* fields as they were and initialize returns False.
initialize ==
  /\ \E failure \in {"MCPClient", "ChatOllama", "MCPAgent", "_build_graph", "none"} :
       LangGraphCraftAgent' =
         IF failure \in {"MCPClient", "ChatOllama"} THEN LangGraphCraftAgent
         ELSE IF failure = "MCPAgent"
         THEN [LangGraphCraftAgent EXCEPT !.llm = "ChatOllama"]
         ELSE IF failure = "_build_graph"
         THEN [LangGraphCraftAgent EXCEPT !.llm = "ChatOllama",
                                          !.mcp_agent = "MCPAgent"]
         ELSE [LangGraphCraftAgent EXCEPT !.llm = "ChatOllama",
                                          !.mcp_agent = "MCPAgent",
                                          !.graph_app = "CompiledStateGraph",
                                          !.initialized = TRUE]
  /\ UNCHANGED << tables, call, result, invocations, CraftAssistant, chats,
                  delivered, session >>

\* setup(): the client, then the LLM, then the agent.
setup ==
  /\ \E failure \in {"MCPClient", "ChatOllama", "MCPAgent", "none"} :
       CraftAssistant' =
         IF failure = "MCPClient" THEN CraftAssistant
         ELSE IF failure \in {"ChatOllama", "MCPAgent"}
         THEN [CraftAssistant EXCEPT !.client = "MCPClient"]
         ELSE [CraftAssistant EXCEPT !.client = "MCPClient",
                                     !.agent = "MCPAgent",
                                     !.initialized = TRUE]
  /\ UNCHANGED << tables, call, result, invocations, LangGraphCraftAgent, chats,
                  delivered, session >>

\* The guard of LangGraphCraftAgent.chat testing the MCP agent, not the graph.
NotInitialized_TestsMcpAgent(agent) == agent.mcp_agent = "None"

\* "if not self.graph_app"
NotInitialized(agent) == agent.graph_app = "None"

\* LangGraphCraftAgent.chat up to its await: a callback that was passed is
\* stored in the streaming handler; an agent without graph is answered at once.
langgraph_chat ==
  /\ \E c \in 1..MaxChats, passed \in BOOLEAN :
       /\ chats[c].state = "idle"
       /\ LangGraphCraftAgent' =
            IF passed THEN [LangGraphCraftAgent EXCEPT !.stream_callback = c]
            ELSE LangGraphCraftAgent
       /\ chats' =
            [chats EXCEPT ![c] =
               [on |-> "LangGraphCraftAgent",
                state |-> IF NotInitialized(LangGraphCraftAgent)
                          THEN "returned" ELSE "ainvoke",
                stream_callback |-> IF passed THEN c ELSE NoCallback,
                ready |-> LangGraphCraftAgent.initialized,
                agent_runs |-> 0, agent_outcome |-> "none",
                response |-> IF NotInitialized(LangGraphCraftAgent)
                             THEN "Agent not initialized" ELSE ""]]
  /\ UNCHANGED << tables, call, result, invocations, CraftAssistant, delivered,
                  session >>

\* graph_app.ainvoke runs _conversation_node, which starts the MCP agent on
\* the message; without an MCP agent the node answers with its error text, and
\* without a graph the call on None raises inside chat's try.
_conversation_node ==
  /\ \E c \in 1..MaxChats :
       /\ chats[c].state = "ainvoke"
       /\ chats' =
            IF LangGraphCraftAgent.graph_app = "None"
            THEN [chats EXCEPT
                    ![c].state = "returned",
                    ![c].response = "Error processing message: 'NoneType' object has no attribute 'ainvoke'"]
            ELSE IF LangGraphCraftAgent.mcp_agent = "None"
            THEN [chats EXCEPT
                    ![c].state = "answered",
                    ![c].response = "Sorry, I encountered an error: MCP agent not initialized"]
            ELSE [chats EXCEPT ![c].state = "agent_running",
                               ![c].agent_runs = @ + 1]
  /\ UNCHANGED << tables, call, result, invocations, LangGraphCraftAgent,
                  CraftAssistant, delivered, session >>

\* The callback a token of chat call c is handed to: the one the handler
\* holds at that moment.
TokenCallback(c) == LangGraphCraftAgent.stream_callback

\* StreamingHandler.on_llm_new_token while the MCP agent works on chat call c.
on_llm_new_token ==
  /\ \E c \in 1..MaxChats :
       /\ chats[c].state = "agent_running"
       /\ chats[c].on = "LangGraphCraftAgent"
       /\ delivered' =
            IF TokenCallback(c) # NoCallback
            THEN delivered \cup {[chat |-> c, passed |-> chats[c].stream_callback,
                                  to |-> TokenCallback(c)]}
            ELSE delivered
  /\ UNCHANGED << tables, call, result, invocations, LangGraphCraftAgent,
                  CraftAssistant, chats, session >>

\* The error text both chat functions return for an exception of the agent run.
SorryText == "Sorry, I encountered an error: agent run failed"

\* What a chat call holds once the agent run has ended with the outcome.
AgentRunEnded(chat, outcome) ==
  [chat EXCEPT
     !.state = IF chat.on = "CraftAssistant" THEN "returned" ELSE "answered",
     !.agent_outcome = outcome,
     !.response = IF outcome = "Exception" THEN SorryText ELSE "response"]

\* mcp_agent.run / agent.run comes back with a response or raises an
\* Exception, which the except around it turns into the error text.
agent_run_ends ==
  /\ \E c \in 1..MaxChats, outcome \in {"response", "Exception"} :
       /\ chats[c].state = "agent_running"
       /\ chats' = [chats EXCEPT ![c] = AgentRunEnded(chats[c], outcome)]
  /\ UNCHANGED << tables, call, result, invocations, LangGraphCraftAgent,
                  CraftAssistant, delivered, session >>

\* ainvoke returns and chat returns the content of the last AIMessage, or
\* ainvoke raises and chat returns the text of its except branch.
langgraph_chat_returns ==
  /\ \E c \in 1..MaxChats :
       /\ chats[c].state = "answered"
       /\ \/ chats' = [chats EXCEPT ![c].state = "returned"]
          \/ chats' = [chats EXCEPT
                         ![c].state = "returned",
                         ![c].response = "Error processing message: ainvoke failed"]
  /\ UNCHANGED << tables, call, result, invocations, LangGraphCraftAgent,
                  CraftAssistant, delivered, session >>

\* CraftAssistant.chat up to its await.
craft_assistant_chat ==
  /\ \E c \in 1..MaxChats :
       /\ chats[c].state = "idle"
       /\ chats' =
            [chats EXCEPT ![c] =
               [on |-> "CraftAssistant",
                state |-> IF CraftAssistant.agent = "None"
                          THEN "returned" ELSE "agent_running",
                stream_callback |-> NoCallback,
                ready |-> CraftAssistant.initialized,
                agent_runs |-> IF CraftAssistant.agent = "None" THEN 0 ELSE 1,
                agent_outcome |-> "none",
                response |->
                  IF CraftAssistant.agent = "None"
                  THEN "Error: Assistant not properly initialized. Please run setup() first."
                  ELSE ""]]
  /\ UNCHANGED << tables, call, result, invocations, LangGraphCraftAgent,
                  CraftAssistant, delivered, session >>

\* The caller has the return value of the chat call; the record of the call
\* and of its tokens is dropped.
chat_returned ==
  /\ \E c \in 1..MaxChats :
       /\ chats[c].state = "returned"
       /\ chats' = [chats EXCEPT ![c] = NoChat]
       /\ delivered' = { d \in delivered : d.chat # c }
  /\ UNCHANGED << tables, call, result, invocations, LangGraphCraftAgent,
                  CraftAssistant, session >>

AgentNext ==
  \/ initialize
  \/ setup
  \/ langgraph_chat
  \/ _conversation_node
  \/ on_llm_new_token
  \/ agent_run_ends
  \/ langgraph_chat_returns
  \/ craft_assistant_chat
  \/ chat_returned

\* The clients start the server as shipped ("uv run python craft_tool.py").
ClientInit == Init /\ CRAFT_DATABASE = ShippedDatabase

AgentSpec == ClientInit /\ [][AgentNext]_vars

(***************************************************************************)
(* The interactive chat loops: CraftAssistant.interactive_session and      *)
(* InteractiveCraftChat.run.  main() starts a loop only when setup() or    *)
(* initialize() has returned True.  input() returns a line, raises         *)
(* KeyboardInterrupt when the user interrupts, or raises EOFError when the *)
(* input stream has ended, which it does again at every later call.        *)
(***************************************************************************)
\* The lines the user types.
InputLines ==
  { "quit", "EXIT", " bye ", "q", "", "   ", "make a paper airplane",
    "quit please" }

\* The words that end the loop.
QuitWords(kind) ==
  IF kind = "CraftAssistant" THEN {"quit", "exit", "bye", "q"}
  ELSE {"quit", "exit", "bye"}

start_session ==
  /\ session = NoSession
  /\ \E kind \in {"CraftAssistant", "LangGraphCraftAgent"} :
       /\ IF kind = "CraftAssistant" THEN CraftAssistant.initialized
          ELSE LangGraphCraftAgent.initialized
       /\ session' = [NoSession EXCEPT !.kind = kind, !.pc = "input"]
  /\ UNCHANGED << tables, call, result, invocations, LangGraphCraftAgent,
                  CraftAssistant, chats, delivered >>

\* user_input = input("You: ").strip(), then the quit test, the blank test and
\* the call of chat.
read_line ==
  /\ session.pc = "input"
  /\ session.ended # "eof"
  /\ session.lines < MaxLines
  /\ \E line \in InputLines :
       session' =
         IF Lower(Strip(line)) \in QuitWords(session.kind)
         THEN [session EXCEPT !.user_input = Strip(line), !.lines = @ + 1,
                              !.pc = "cleanup", !.ended = "quit"]
         ELSE IF Strip(line) = ""
         THEN [session EXCEPT !.user_input = Strip(line), !.lines = @ + 1]
         ELSE [session EXCEPT !.user_input = Strip(line), !.lines = @ + 1,
                              !.pc = "chat",
                              !.forwarded = Append(@, Strip(line))]
  /\ UNCHANGED << tables, call, result, invocations, LangGraphCraftAgent,
                  CraftAssistant, chats, delivered >>

\* chat has returned its text, which is printed; the loop goes on.
chat_answered ==
  /\ session.pc = "chat"
  /\ session' = [session EXCEPT !.pc = "input"]
  /\ UNCHANGED << tables, call, result, invocations, LangGraphCraftAgent,
                  CraftAssistant, chats, delivered >>

\* KeyboardInterrupt at input() or while chat is awaited: "except
\* KeyboardInterrupt" leaves the loop.
keyboard_interrupt ==
  /\ session.pc \in {"input", "chat"}
  /\ session' = [session EXCEPT
                   !.pc = "cleanup",
                   !.ended = IF @ = "no" THEN "interrupt" ELSE @]
  /\ UNCHANGED << tables, call, result, invocations, LangGraphCraftAgent,
                  CraftAssistant, chats, delivered >>

\* Where the loop goes on EOFError.  In interactive_session the inner "except
\* Exception: ... continue" catches it and the loop calls input() again; in
\* InteractiveCraftChat.run the handler is outside the loop.
AfterEOFError(kind) ==
  IF kind = "CraftAssistant" THEN "input" ELSE "cleanup"

\* The input stream has ended: input() raises EOFError.
end_of_input ==
  /\ session.pc = "input"
  /\ session' = [session EXCEPT !.pc = AfterEOFError(session.kind),
                                !.ended = IF @ = "no" THEN "eof" ELSE @]
  /\ UNCHANGED << tables, call, result, invocations, LangGraphCraftAgent,
                  CraftAssistant, chats, delivered >>

\* The calls of close_all_sessions one cleanup() makes: one when the client is
\* there ("if self.client" / "if self.mcp_agent and ... self.mcp_agent.client").
ClosedByCleanup(kind) ==
  IF kind = "CraftAssistant"
  THEN (IF CraftAssistant.client # "None" THEN 1 ELSE 0)
  ELSE (IF LangGraphCraftAgent.mcp_agent # "None" THEN 1 ELSE 0)

\* finally: await self.cleanup(); then the session function returns.
cleanup ==
  /\ session.pc = "cleanup"
  /\ session' = [session EXCEPT !.pc = "returned",
                                !.closed = @ + ClosedByCleanup(session.kind)]
  /\ UNCHANGED << tables, call, result, invocations, LangGraphCraftAgent,
                  CraftAssistant, chats, delivered >>

SessionNext ==
  \/ initialize
  \/ setup
  \/ start_session
  \/ read_line
  \/ chat_answered
  \/ keyboard_interrupt
  \/ end_of_input
  \/ cleanup

SessionSpec == ClientInit /\ [][SessionNext]_vars

(***************************************************************************)
(* Vocabulary of the properties.                                           *)
(***************************************************************************)
Returned(op) == call.op = op

\* The mapping carries an "error" field.
IsError(r) == r.type = "dict" /\ "error" \in DOMAIN r.value

\* The table holds id with the item the shipped catalogue has for it.
ShippedItem(id) ==
  /\ HasKey(CRAFT_DATABASE, id)
  /\ Lookup(CRAFT_DATABASE, id) = Lookup(ShippedDatabase, id)

\* The first run of decimal digits of a text as a number, 0 when it has none.
FirstNumber(text) ==
  IF Findall(text) = << >> THEN 0 ELSE ParseInt(Findall(text)[1])

\* estimated_total_minutes of estimate_craft_time(item_ids); 0 before the
\* first id.
MinutesReported(item_ids) ==
  IF item_ids = << >> THEN 0
  ELSE _estimate_craft_time(item_ids, CRAFT_DATABASE).value.estimated_total_minutes

\* What the last id of the call added: the reported total less the total
\* reported for the ids before it.
LastIdAdded ==
  LET item_ids == call.args[1]
  IN  result.value.estimated_total_minutes
        - MinutesReported(SubSeq(item_ids, 1, Len(item_ids) - 1))

LastId == call.args[1][Len(call.args[1])]

LastTime == Lookup(CRAFT_DATABASE, LastId).time_required

EstimateReturned == Returned("estimate_craft_time") /\ ~IsError(result)

(***************************************************************************)
(* estimate_craft_time                                                     *)
(***************************************************************************)
\* C1: a valid item whose time_required contains "hour" and not "minute" adds
\* (first digit run x 60) minutes to estimated_total_minutes, whatever ids
\* precede it in the call; ["painted_rock"] reports 60 and
\* ["macrame_plant_hanger"] reports 120.
C1_HourItemAddsSixtyPerHour ==
  EstimateReturned =>
    /\ ( /\ HasKey(CRAFT_DATABASE, LastId)
         /\ Contains("hour", LastTime)
         /\ ~Contains("minute", LastTime) )
       => LastIdAdded = FirstNumber(LastTime) * 60
    /\ (call.args[1] = << "painted_rock" >> /\ ShippedItem("painted_rock"))
       => result.value.estimated_total_minutes = 60
    /\ (call.args[1] = << "macrame_plant_hanger" >> /\ ShippedItem("macrame_plant_hanger"))
       => result.value.estimated_total_minutes = 120

\* C2: a valid item whose time_required contains "minute" adds exactly its
\* first digit run as minutes, also when the text contains "hour" as well; an
\* item whose text has no digit run, or neither "minute" nor "hour", adds zero;
\* ["paper_airplane", "origami_crane"] reports two valid items, no invalid one
\* and 5 + 15 = 20 minutes.
C2_MinuteItemAddsFirstNumber ==
  EstimateReturned =>
    /\ HasKey(CRAFT_DATABASE, LastId) =>
         /\ Contains("minute", LastTime) => LastIdAdded = FirstNumber(LastTime)
         /\ Findall(LastTime) = << >> => LastIdAdded = 0
         /\ (~Contains("minute", LastTime) /\ ~Contains("hour", LastTime))
            => LastIdAdded = 0
    /\ ( /\ call.args[1] = << "paper_airplane", "origami_crane" >>
         /\ ShippedItem("paper_airplane") /\ ShippedItem("origami_crane") )
       => /\ Len(result.value.valid_items) = 2
          /\ Len(result.value.invalid_items) = 0
          /\ result.value.estimated_total_minutes = 20

\* Reached: a range of minutes after another item ("15-20 minutes" adds 15 to
\* the 5 of "5 minutes").
C2_Witness ==
  /\ EstimateReturned
  /\ call.args[1] = << "paper_airplane", "origami_crane" >>
  /\ ShippedItem("origami_crane")
  /\ LastTime = "15-20 minutes"
  /\ LastIdAdded = 15
  /\ result.value.estimated_total_minutes = 20

\* The number of k in 1..n with P[k].
CountBefore(flags, n) == Cardinality({ k \in 1..n : flags[k] })

\* C3: for a non-empty ids list every element is classified: valid_items
\* holds, in input order, one {id, name, time} entry per element that is a
\* catalogue key, invalid_items holds, in input order, every other element, and
\* the two lengths add up to the length of ids; for ["paper_airplane",
\* "nonexistent", "origami_crane"] exactly "nonexistent" is invalid.
C3_EveryIdClassifiedInOrder ==
  (Returned("estimate_craft_time") /\ call.args[1] # << >>) =>
    LET item_ids == call.args[1]
        valid == [k \in 1..Len(item_ids) |-> HasKey(CRAFT_DATABASE, item_ids[k])]
        invalid == [k \in 1..Len(item_ids) |-> ~valid[k]]
        r == result.value
    IN  /\ ~IsError(result)
        /\ Len(r.valid_items) + Len(r.invalid_items) = Len(item_ids)
        /\ Len(r.valid_items) = CountBefore(valid, Len(item_ids))
        /\ \A k \in 1..Len(item_ids) :
             IF valid[k]
             THEN r.valid_items[CountBefore(valid, k)] =
                    [id |-> item_ids[k],
                     name |-> Lookup(CRAFT_DATABASE, item_ids[k]).name,
                     time |-> Lookup(CRAFT_DATABASE, item_ids[k]).time_required]
             ELSE r.invalid_items[CountBefore(invalid, k)] = item_ids[k]
        /\ ( /\ item_ids = << "paper_airplane", "nonexistent", "origami_crane" >>
             /\ ShippedItem("paper_airplane") /\ ShippedItem("origami_crane") )
           => /\ r.invalid_items = << "nonexistent" >>
              /\ [k \in 1..2 |-> r.valid_items[k].id] =
                   << "paper_airplane", "origami_crane" >>

\* Reached: the mixed call, with the invalid id between the two valid ones.
C3_Witness ==
  /\ Returned("estimate_craft_time")
  /\ call.args[1] = << "paper_airplane", "nonexistent", "origami_crane" >>
  /\ ~IsError(result)
  /\ result.value.invalid_items = << "nonexistent" >>
  /\ Len(result.value.valid_items) = 2
  /\ result.value.valid_items[2] =
       [id |-> "origami_crane", name |-> "Origami Crane", time |-> "15-20 minutes"]

\* C4: on an empty ids list estimate_craft_time returns a tagged error saying
\* the list cannot be empty; on a non-empty list of ids that are all absent from
\* the catalogue it returns an error-free result with no valid item, every id
\* in invalid_items and both totals 0.
C4_EmptyIdsErrorAllInvalidNormal ==
  Returned("estimate_craft_time") =>
    LET item_ids == call.args[1]
    IN  /\ item_ids = << >> =>
             /\ IsError(result)
             /\ DOMAIN result.value = {"error"}
             /\ Contains("cannot be empty", result.value.error)
        /\ ( /\ item_ids # << >>
             /\ \A k \in 1..Len(item_ids) : ~HasKey(CRAFT_DATABASE, item_ids[k]) )
           => /\ ~IsError(result)
              /\ result.value.valid_items = << >>
              /\ result.value.invalid_items = item_ids
              /\ result.value.estimated_total_minutes = 0
              /\ result.value.estimated_total_hours = 0

\* Reached: a call with only unknown ids on a catalogue that has items.
C4_Witness ==
  /\ Returned("estimate_craft_time")
  /\ CRAFT_DATABASE # << >>
  /\ call.args[1] = << "nonexistent", "" >>
  /\ ~IsError(result)
  /\ result.value.valid_items = << >>
  /\ result.value.invalid_items = << "nonexistent", "" >>
  /\ result.value.estimated_total_minutes = 0

\* C5: in every error-free result of estimate_craft_time the total of minutes
\* is a non-negative integer and estimated_total_hours (in hundredths) is the
\* hundredth nearest to minutes / 60: 20 minutes give 0.33 and 0 minutes 0.
C5_HoursAreMinutesOverSixtyRounded ==
  EstimateReturned =>
    LET m == result.value.estimated_total_minutes
        h == result.value.estimated_total_hours
        d == 60 * h - 100 * m
    IN  /\ m \in Nat
        /\ h \in Nat
        /\ -30 <= d /\ d <= 30
        /\ m = 20 => h = 33
        /\ m = 0 => h = 0

\* Reached: a total whose quotient rounds up (10 / 60 = 0.1666... gives 0.17).
C5_Witness ==
  /\ EstimateReturned
  /\ result.value.estimated_total_minutes = 10
  /\ result.value.estimated_total_hours = 17

(***************************************************************************)
(* get_craft_details                                                       *)
(***************************************************************************)
\* C6: for a non-empty id that is not a key of the catalogue get_craft_details
\* returns a mapping with an error field whose message contains "not found"
\* and the requested id verbatim, and with no item, instructions or tips field.
C6_UnknownIdIsNotFound ==
  ( /\ Returned("get_craft_details")
    /\ call.args[1] # ""
    /\ ~HasKey(CRAFT_DATABASE, call.args[1]) )
  => /\ result.type = "dict"
     /\ "error" \in DOMAIN result.value
     /\ DOMAIN result.value \cap {"item", "instructions", "tips"} = {}
     /\ Contains("not found", result.value.error)
     /\ Contains(call.args[1], result.value.error)

\* Reached: an unknown id asked of a catalogue that has items.
C6_Witness ==
  /\ Returned("get_craft_details")
  /\ CRAFT_DATABASE # << >>
  /\ call.args[1] = "unicorn_craft"
  /\ result = PyDict([error |-> "Craft item 'unicorn_craft' not found"])

\* C7 as stated: for the empty string and for a blank (whitespace-only) id
\* get_craft_details returns an error whose message contains "not found".
C7_EmptyOrBlankIdIsNotFound ==
  (Returned("get_craft_details") /\ Strip(call.args[1]) = "")
  => /\ IsError(result)
     /\ Contains("not found", result.value.error)

\* C7 as amended: for the empty string and for a blank id that is no key
\* get_craft_details returns a tagged error and no item; the message for a
\* blank, non-empty id contains "not found" and the id, the message for the
\* empty string is "Item ID cannot be empty" and does not contain "not found".
C7_BlankIdNotFoundEmptyIdRejected ==
  ( /\ Returned("get_craft_details")
    /\ Strip(call.args[1]) = ""
    /\ ~HasKey(CRAFT_DATABASE, call.args[1]) )
  => /\ IsError(result)
     /\ "item" \notin DOMAIN result.value
     /\ IF call.args[1] = ""
        THEN /\ result.value.error = "Item ID cannot be empty"
             /\ ~Contains("not found", result.value.error)
        ELSE /\ Contains("not found", result.value.error)
             /\ Contains(call.args[1], result.value.error)

\* Reached: the empty id, answered with the message of its own.
C7_Witness ==
  /\ Returned("get_craft_details")
  /\ call.args[1] = ""
  /\ result = PyDict([error |-> "Item ID cannot be empty"])

ItemFields ==
  {"name", "description", "materials", "difficulty", "time_required", "category"}

\* C8: for an id that is a key of the catalogue get_craft_details returns an
\* error-free mapping {item, instructions, tips}: item has the six fields of
\* the stored CraftItem with their stored values, instructions and tips are the
\* lists stored for the id, each the empty list when its table has no entry
\* for the id; "paper_airplane" has name "Paper Airplane", difficulty "easy"
\* and category "paper_crafts".
C8_KnownIdReturnsStoredRecipe ==
  (Returned("get_craft_details") /\ HasKey(CRAFT_DATABASE, call.args[1])) =>
    LET item_id == call.args[1]
        stored == Lookup(CRAFT_DATABASE, item_id)
        r == result.value
    IN  /\ result.type = "dict"
        /\ DOMAIN r = {"item", "instructions", "tips"}
        /\ DOMAIN r.item = ItemFields
        /\ \A f \in ItemFields : r.item[f] = stored[f]
        /\ r.instructions =
             IF HasKey(CRAFT_INSTRUCTIONS, item_id)
             THEN Lookup(CRAFT_INSTRUCTIONS, item_id) ELSE << >>
        /\ r.tips =
             IF HasKey(CRAFT_TIPS, item_id)
             THEN Lookup(CRAFT_TIPS, item_id) ELSE << >>
        /\ (item_id = "paper_airplane" /\ ShippedItem("paper_airplane"))
           => /\ r.item.name = "Paper Airplane"
              /\ r.item.difficulty = "easy"
              /\ r.item.category = "paper_crafts"
              /\ r.instructions # << >>
              /\ r.tips # << >>

\* Reached: an item with tips and without instructions.
C8_Witness ==
  /\ Returned("get_craft_details")
  /\ call.args[1] = "clay_pot"
  /\ ~IsError(result)
  /\ result.value.item.name = "Clay Pot"
  /\ result.value.instructions = << >>
  /\ result.value.tips = << "Keep the clay moist while shaping" >>

(***************************************************************************)
(* list_craft_items                                                        *)
(***************************************************************************)
SummaryFields ==
  {"id", "name", "description", "difficulty", "time_required", "category"}

\* C9: list_craft_items returns a list, never an error, with exactly one
\* summary {id, name, description, difficulty, time_required, category} per
\* catalogue entry, in the catalogue's insertion order: its length is the
\* catalogue's size, its id set is the catalogue's key set, and it is empty for
\* an empty catalogue.
C9_ListHasOneSummaryPerEntry ==
  Returned("list_craft_items") =>
    LET r == result.value
    IN  /\ result.type = "list"
        /\ Len(r) = Len(CRAFT_DATABASE)
        /\ \A i \in 1..Len(CRAFT_DATABASE) :
             /\ DOMAIN r[i] = SummaryFields
             /\ r[i].id = CRAFT_DATABASE[i].key
             /\ \A f \in SummaryFields \ {"id"} : r[i][f] = CRAFT_DATABASE[i].value[f]
        /\ { r[i].id : i \in 1..Len(r) } =
             { CRAFT_DATABASE[i].key : i \in 1..Len(CRAFT_DATABASE) }
        /\ CRAFT_DATABASE = << >> => r = << >>

\* Reached: the list of the shipped catalogue, its five ids in order.
C9_Witness ==
  /\ Returned("list_craft_items")
  /\ CRAFT_DATABASE = ShippedDatabase
  /\ result.type = "list"
  /\ [i \in 1..Len(result.value) |-> result.value[i].id] =
       << "paper_airplane", "origami_crane", "friendship_bracelet",
          "painted_rock", "macrame_plant_hanger" >>

(***************************************************************************)
(* search_crafts_by_materials                                              *)
(***************************************************************************)
\* The ids of the records of a returned list.
ResultIds == [k \in 1..Len(result.value) |-> result.value[k].id]

Listed(item_id) == \E k \in 1..Len(result.value) : result.value[k].id = item_id

\* What search_crafts_by_materials returns for the claim's examples on the
\* shipped catalogue.
MaterialExamples ==
  CRAFT_DATABASE = ShippedDatabase =>
    /\ call.args[1] = << "paper" >>
       => ResultIds = << "paper_airplane", "origami_crane" >>
    /\ call.args[1] = << "unicorn_horn" >> => result.value = << >>
    /\ call.args[1] = << "A4 paper sheets" >> => ~Listed("paper_airplane")

\* C10 as stated: an item is returned exactly when some requested material,
\* trimmed and lower-cased, is a substring of some stored material of the item,
\* lower-cased.
C10_MatchIffRequestInStored ==
  Returned("search_crafts_by_materials") =>
    /\ result.type = "list"
    /\ \A i \in 1..Len(CRAFT_DATABASE) :
         Listed(CRAFT_DATABASE[i].key) <=>
           \E a \in 1..Len(call.args[1]) :
             \E j \in 1..Len(CRAFT_DATABASE[i].value.materials) :
               Contains(Strip(Lower(call.args[1][a])),
                        Lower(CRAFT_DATABASE[i].value.materials[j]))
    /\ MaterialExamples

\* C10 as amended: an item is returned exactly when some requested material
\* that is not blank, trimmed and lower-cased, is a substring of some stored
\* material of the item, lower-cased; a requested string that strictly contains
\* a stored material does not match through it.
C10_MatchIffNonBlankRequestInStored ==
  Returned("search_crafts_by_materials") =>
    /\ result.type = "list"
    /\ \A i \in 1..Len(CRAFT_DATABASE) :
         Listed(CRAFT_DATABASE[i].key) <=>
           \E a \in 1..Len(call.args[1]) :
             /\ Strip(call.args[1][a]) # ""
             /\ \E j \in 1..Len(CRAFT_DATABASE[i].value.materials) :
                  Contains(Strip(Lower(call.args[1][a])),
                           Lower(CRAFT_DATABASE[i].value.materials[j]))
    /\ MaterialExamples

\* Reached: a blank entry beside "paper"; the two paper items are returned and
\* no other.
C10_Witness ==
  /\ Returned("search_crafts_by_materials")
  /\ CRAFT_DATABASE = ShippedDatabase
  /\ call.args[1] = << "  ", "paper" >>
  /\ result.type = "list"
  /\ ResultIds = << "paper_airplane", "origami_crane" >>

\* The request with every entry trimmed and the blank entries left out.
Trimmed(materials) ==
  Collect([a \in 1..Len(materials) |-> Strip(materials[a])],
          [a \in 1..Len(materials) |-> Strip(materials[a]) # ""])

\* C11: search_crafts_by_materials ignores the whitespace around an entry and
\* the blank entries of the request: the result is the result for the request
\* with every entry trimmed and the blank entries removed, and a request of
\* blank entries only returns the empty list.
C11_BlanksAndSurroundingSpaceIgnored ==
  Returned("search_crafts_by_materials") =>
    /\ result = _search_crafts_by_materials(Trimmed(call.args[1]), CRAFT_DATABASE)
    /\ (\A a \in 1..Len(call.args[1]) : Strip(call.args[1][a]) = "")
       => result = PyList(<< >>)

\* Reached: an entry with blanks around it beside a blank entry, answered as
\* ["paper"] is.
C11_Witness ==
  /\ Returned("search_crafts_by_materials")
  /\ CRAFT_DATABASE = ShippedDatabase
  /\ call.args[1] = << " PAPER ", "  " >>
  /\ Trimmed(call.args[1]) = << "PAPER" >>
  /\ ResultIds = << "paper_airplane", "origami_crane" >>

\* The argument is a list whose entries are all blank strings (or it is empty).
AllBlankList(materials) ==
  /\ materials.type = "list"
  /\ \A a \in 1..Len(materials.value) :
       /\ materials.value[a].type = "str"
       /\ Strip(materials.value[a].value) = ""

\* C12: search_crafts_by_materials never returns a tagged error: for every
\* argument, also an empty list, a list of blank entries only, a list with
\* entries that are no strings and an argument that is no list, the result is
\* a list (no error field), and it is the empty list for an empty or entirely
\* blank request.
C12_MaterialsSearchNeverErrors ==
  /\ Returned("search_crafts_by_materials") =>
       /\ result.type = "list"
       /\ (\A a \in 1..Len(call.args[1]) : Strip(call.args[1][a]) = "")
          => result.value = << >>
  /\ Returned("_search_crafts_by_materials") =>
       /\ result.type = "list"
       /\ AllBlankList(call.args[1]) => result.value = << >>

\* Reached: a list holding a string that matches and an entry that is None;
\* the call returns the empty list.
C12_Witness ==
  /\ Returned("_search_crafts_by_materials")
  /\ CRAFT_DATABASE = ShippedDatabase
  /\ call.args[1].type = "list"
  /\ call.args[1].value = << PyStr("paper"), PyNone >>
  /\ result = PyList(<< >>)

(***************************************************************************)
(* search_crafts_by_category and search_crafts_by_difficulty               *)
(***************************************************************************)
\* Two characters that are equal or the two cases of one letter.
SameLetter(c, d) ==
  \/ c = d
  \/ \E i \in 1..Len(UpperLetters) :
       {c, d} = {Char(UpperLetters, i), Char(LowerLetters, i)}

\* Two strings that differ at most in the case of their letters.
EqIgnoreCase(a, b) ==
  /\ Len(a) = Len(b)
  /\ \A i \in 1..Len(a) : SameLetter(Char(a, i), Char(b, i))

\* C13: for a non-empty argument search_crafts_by_category returns a list
\* holding exactly the items whose whole category equals the argument up to
\* letter case; a substring of a category does not match ("paper" does not
\* return the "paper_crafts" item), and when no item matches the result is the
\* empty list, not an error.
C13_CategoryMatchesWholeStringIgnoringCase ==
  (Returned("search_crafts_by_category") /\ call.args[1] # "") =>
    /\ result.type = "list"
    /\ \A i \in 1..Len(CRAFT_DATABASE) :
         Listed(CRAFT_DATABASE[i].key)
           <=> EqIgnoreCase(CRAFT_DATABASE[i].value.category, call.args[1])
    /\ call.args[1] = "paper" => ~Listed("paper_airplane")
    /\ (\A i \in 1..Len(CRAFT_DATABASE) :
          ~EqIgnoreCase(CRAFT_DATABASE[i].value.category, call.args[1]))
       => result = PyList(<< >>)

\* Reached: "paper" asked of a catalogue with a "paper_crafts" item; the
\* result is the empty list.
C13_Witness ==
  /\ Returned("search_crafts_by_category")
  /\ call.args[1] = "paper"
  /\ ShippedItem("paper_airplane")
  /\ Lookup(CRAFT_DATABASE, "paper_airplane").category = "paper_crafts"
  /\ result = PyList(<< >>)

\* C14: search_crafts_by_category returns a tagged error whenever the category
\* is the empty string or a blank (whitespace-only) string.
C14_EmptyOrBlankCategoryIsError ==
  (Returned("search_crafts_by_category") /\ Strip(call.args[1]) = "")
  => IsError(result)

\* C15: search_crafts_by_category and search_crafts_by_difficulty do not
\* depend on the letter case of their argument: the result equals the result
\* for every argument that differs from it only in case ("origami", "ORIGAMI",
\* "Origami"; "easy", "EASY", "Easy").
C15_SearchArgumentCaseInsensitive ==
  /\ Returned("search_crafts_by_category") =>
       \A other \in CategoryArgs :
         EqIgnoreCase(call.args[1], other)
           => result = _search_crafts_by_category(other, CRAFT_DATABASE)
  /\ Returned("search_crafts_by_difficulty") =>
       \A other \in DifficultyArgs :
         EqIgnoreCase(call.args[1], other)
           => result = _search_crafts_by_difficulty(other, CRAFT_DATABASE)

\* Reached: "ORIGAMI" returns the origami item, as "origami" does.
C15_Witness ==
  /\ Returned("search_crafts_by_category")
  /\ CRAFT_DATABASE = ShippedDatabase
  /\ call.args[1] = "ORIGAMI"
  /\ result.type = "list"
  /\ ResultIds = << "origami_crane" >>
  /\ result = _search_crafts_by_category("origami", CRAFT_DATABASE)

\* The set of ids of the records of a list.
IdSet(records) == { records[k].id : k \in 1..Len(records) }

\* The ids search_crafts_by_difficulty returns for a level.
IdsOfLevel(level) ==
  IdSet(_search_crafts_by_difficulty(level, CRAFT_DATABASE).value)

\* C16: the results of search_crafts_by_difficulty for "easy", "medium" and
\* "hard" partition the catalogue: each holds exactly the items stored with
\* that difficulty, the three id sets are pairwise disjoint and their union is
\* the id set of list_craft_items; on the shipped catalogue their sizes are 2,
\* 2 and 1.
C16_DifficultyLevelsPartitionCatalogue ==
  (Returned("search_crafts_by_difficulty") /\ call.args[1] \in {"easy", "medium", "hard"}) =>
    /\ result.type = "list"
    /\ \A i \in 1..Len(CRAFT_DATABASE) :
         Listed(CRAFT_DATABASE[i].key)
           <=> CRAFT_DATABASE[i].value.difficulty = call.args[1]
    /\ \A level \in {"easy", "medium", "hard"} :
         _search_crafts_by_difficulty(level, CRAFT_DATABASE).type = "list"
    /\ IdSet(result.value) = IdsOfLevel(call.args[1])
    /\ IdsOfLevel("easy") \cap IdsOfLevel("medium") = {}
    /\ IdsOfLevel("easy") \cap IdsOfLevel("hard") = {}
    /\ IdsOfLevel("medium") \cap IdsOfLevel("hard") = {}
    /\ IdsOfLevel("easy") \cup IdsOfLevel("medium") \cup IdsOfLevel("hard")
         = IdSet(_list_craft_items(CRAFT_DATABASE).value)
    /\ CRAFT_DATABASE = ShippedDatabase =>
         Len(result.value) = (IF call.args[1] = "hard" THEN 1 ELSE 2)

\* Reached: "hard" on the shipped catalogue returns its one hard item.
C16_Witness ==
  /\ Returned("search_crafts_by_difficulty")
  /\ CRAFT_DATABASE = ShippedDatabase
  /\ call.args[1] = "hard"
  /\ result.type = "list"
  /\ ResultIds = << "macrame_plant_hanger" >>
  /\ Cardinality(IdsOfLevel("easy")) = 2
  /\ Cardinality(IdsOfLevel("medium")) = 2

\* The argument is empty, blank, or no valid level after lower-casing.
InvalidDifficulty(difficulty) ==
  \/ Strip(difficulty) = ""
  \/ \A level \in {"easy", "medium", "hard"} : ~EqIgnoreCase(difficulty, level)

\* The message names the three valid levels.
NamesLevels(message) ==
  /\ Contains("easy", message)
  /\ Contains("medium", message)
  /\ Contains("hard", message)

\* C17 as stated: for an argument that is empty, blank or no valid level
\* search_crafts_by_difficulty returns a tagged error mapping, never a list,
\* and the message names the three valid levels in every one of these cases.
C17_InvalidDifficultyErrorNamesLevels ==
  (Returned("search_crafts_by_difficulty") /\ InvalidDifficulty(call.args[1])) =>
    /\ result.type = "dict"
    /\ IsError(result)
    /\ NamesLevels(result.value.error)

\* C17 as amended: for an argument that is empty, blank or no valid level
\* search_crafts_by_difficulty returns a tagged error mapping, never a list;
\* the message names the three valid levels unless the argument is the empty
\* string, for which it is "Difficulty cannot be empty".
C17_InvalidDifficultyErrorEmptyHasOwnMessage ==
  (Returned("search_crafts_by_difficulty") /\ InvalidDifficulty(call.args[1])) =>
    /\ result.type = "dict"
    /\ IsError(result)
    /\ IF call.args[1] = ""
       THEN /\ result.value.error = "Difficulty cannot be empty"
            /\ ~NamesLevels(result.value.error)
       ELSE NamesLevels(result.value.error)

\* Reached: the empty argument, answered with the message of its own.
C17_Witness ==
  /\ Returned("search_crafts_by_difficulty")
  /\ call.args[1] = ""
  /\ result = PyDict([error |-> "Difficulty cannot be empty"])

(***************************************************************************)
(* The three searches together                                             *)
(***************************************************************************)
SearchOps ==
  {"search_crafts_by_category", "search_crafts_by_difficulty",
   "search_crafts_by_materials"}

\* The fields of a record of a search result.
SearchFields ==
  IF Returned("search_crafts_by_category")
  THEN {"id", "name", "description", "difficulty", "time_required"}
  ELSE IF Returned("search_crafts_by_difficulty")
  THEN {"id", "name", "description", "category", "time_required"}
  ELSE {"id", "name", "description", "materials_needed", "difficulty",
        "time_required"}

\* The ids of list_craft_items, in its order.
ListIds ==
  [i \in 1..Len(_list_craft_items(CRAFT_DATABASE).value) |->
     _list_craft_items(CRAFT_DATABASE).value[i].id]

\* Where list_craft_items has the id.
ListPosition(item_id) ==
  CHOOSE i \in 1..Len(ListIds) : ListIds[i] = item_id

\* The item is one the search of the last call asks for.
Matching(item) ==
  IF Returned("search_crafts_by_category")
  THEN EqIgnoreCase(item.category, call.args[1])
  ELSE IF Returned("search_crafts_by_difficulty")
  THEN EqIgnoreCase(item.difficulty, call.args[1])
  ELSE \E a \in 1..Len(call.args[1]) :
         /\ Strip(call.args[1][a]) # ""
         /\ \E j \in 1..Len(item.materials) :
              Contains(Lower(Strip(call.args[1][a])),
                       Lower(Strip(item.materials[j])))

\* C18: a list returned by search_crafts_by_category,
\* search_crafts_by_difficulty or search_crafts_by_materials has each matching
\* item exactly once and no other item, in the order of list_craft_items (its
\* ids are a subsequence of the ids of list_craft_items, also when several
\* requested materials match one item); every field of a record has the value
\* stored for the item, materials_needed being the item's whole material list.
C18_SearchListsEachMatchOnceInOrder ==
  (call.op \in SearchOps /\ result.type = "list") =>
    LET r == result.value
    IN  /\ \A k \in 1..Len(r) : \E i \in 1..Len(ListIds) : ListIds[i] = r[k].id
        /\ \A k, l \in 1..Len(r) :
             k < l => ListPosition(r[k].id) < ListPosition(r[l].id)
        /\ \A i \in 1..Len(CRAFT_DATABASE) :
             Cardinality({ k \in 1..Len(r) : r[k].id = CRAFT_DATABASE[i].key })
               = (IF Matching(CRAFT_DATABASE[i].value) THEN 1 ELSE 0)
        /\ \A k \in 1..Len(r) :
             /\ DOMAIN r[k] = SearchFields
             /\ HasKey(CRAFT_DATABASE, r[k].id)
             /\ \A f \in SearchFields \ {"id", "materials_needed"} :
                  r[k][f] = Lookup(CRAFT_DATABASE, r[k].id)[f]
             /\ Returned("search_crafts_by_materials") =>
                  r[k].materials_needed = Lookup(CRAFT_DATABASE, r[k].id).materials

\* Reached: two requested materials that both match the paper airplane, which
\* is returned once, with its two stored materials, before the origami crane.
C18_Witness ==
  /\ Returned("search_crafts_by_materials")
  /\ CRAFT_DATABASE = ShippedDatabase
  /\ call.args[1] = << "paper", "a4 paper" >>
  /\ ResultIds = << "paper_airplane", "origami_crane" >>
  /\ result.value[1].materials_needed = << "A4 paper", "steady hands" >>

(***************************************************************************)
(* get_random_craft                                                        *)
(***************************************************************************)
\* The names of the items of the catalogue.
CatalogueNames ==
  { CRAFT_DATABASE[i].value.name : i \in 1..Len(CRAFT_DATABASE) }

\* C19: get_random_craft returns the error "No crafts available in database"
\* when the catalogue is empty; otherwise it returns no error, its result is
\* what get_craft_details returns for one of the catalogue's keys, and the
\* name of the returned item is one of the catalogue's names.
C19_RandomCraftIsDetailsOfSomeKey ==
  Returned("get_random_craft") =>
    IF CRAFT_DATABASE = << >>
    THEN /\ IsError(result)
         /\ Contains("No crafts available", result.value.error)
    ELSE /\ ~IsError(result)
         /\ \E i \in 1..Len(CRAFT_DATABASE) :
              result = _get_craft_details(CRAFT_DATABASE[i].key, CRAFT_DATABASE,
                                          CRAFT_INSTRUCTIONS, CRAFT_TIPS)
         /\ result.value.item.name \in CatalogueNames

\* Reached: the shipped catalogue's second item is the one picked.
C19_Witness ==
  /\ Returned("get_random_craft")
  /\ CRAFT_DATABASE = ShippedDatabase
  /\ ~IsError(result)
  /\ result.value.item.name = "Origami Crane"
  /\ result = _get_craft_details("origami_crane", CRAFT_DATABASE,
                                 CRAFT_INSTRUCTIONS, CRAFT_TIPS)

(***************************************************************************)
(* The tables are read only                                                *)
(***************************************************************************)
\* C20: no operation changes the data tables: every step of every sequence of
\* calls, whatever the arguments, leaves CRAFT_DATABASE, CRAFT_INSTRUCTIONS and
\* CRAFT_TIPS as they were, so they always have their initial contents.
C20_TablesNeverChange == [][tables' = tables]_vars

\* Reached: a call with an argument that is no list has returned and the
\* tables are the shipped ones with the additional entries, as at the start.
C20_Witness ==
  /\ Returned("_search_crafts_by_materials")
  /\ call.args[1].type = "int"
  /\ CRAFT_DATABASE = ShippedDatabase \o ExtraDatabase
  /\ CRAFT_INSTRUCTIONS = ShippedInstructions \o ExtraInstructions
  /\ CRAFT_TIPS = ShippedTips \o ExtraTips

(***************************************************************************)
(* The shipped tables                                                      *)
(***************************************************************************)
\* C24: the shipped tables are well formed: every catalogue item has at least
\* one material and a difficulty that is exactly "easy", "medium" or "hard",
\* and every catalogue id has an entry in CRAFT_INSTRUCTIONS and one in
\* CRAFT_TIPS, each a non-empty list.
C24_ShippedTablesWellFormed ==
  (/\ CRAFT_DATABASE = ShippedDatabase
   /\ CRAFT_INSTRUCTIONS = ShippedInstructions
   /\ CRAFT_TIPS = ShippedTips) =>
    \A i \in 1..Len(CRAFT_DATABASE) :
      /\ Len(CRAFT_DATABASE[i].value.materials) > 0
      /\ CRAFT_DATABASE[i].value.difficulty \in {"easy", "medium", "hard"}
      /\ HasKey(CRAFT_INSTRUCTIONS, CRAFT_DATABASE[i].key)
      /\ Len(DictGet(CRAFT_INSTRUCTIONS, CRAFT_DATABASE[i].key, << >>)) > 0
      /\ HasKey(CRAFT_TIPS, CRAFT_DATABASE[i].key)
      /\ Len(DictGet(CRAFT_TIPS, CRAFT_DATABASE[i].key, << >>)) > 0

\* Reached: the shipped tables are loaded, five items, and the details of the
\* last one carry its instructions and tips.
C24_Witness ==
  /\ CRAFT_DATABASE = ShippedDatabase
  /\ CRAFT_INSTRUCTIONS = ShippedInstructions
  /\ CRAFT_TIPS = ShippedTips
  /\ Len(CRAFT_DATABASE) = 5
  /\ Returned("get_craft_details")
  /\ call.args[1] = "macrame_plant_hanger"
  /\ result.value.instructions # << >>
  /\ result.value.tips # << >>

(***************************************************************************)
(* estimate_craft_time and the order of the ids                            *)
(***************************************************************************)
\* The rearrangements of the positions 1..n.
Rearrangements(n) ==
  { p \in [1..n -> 1..n] : \A i, j \in 1..n : i # j => p[i] # p[j] }

Permuted(item_ids, p) == [i \in 1..Len(item_ids) |-> item_ids[p[i]]]

\* The sum of the totals estimate_craft_time reports for each id alone.
RECURSIVE SumOfSingleTotals(_)
SumOfSingleTotals(item_ids) ==
  IF item_ids = << >> THEN 0
  ELSE _estimate_craft_time(<< Head(item_ids) >>, CRAFT_DATABASE)
         .value.estimated_total_minutes
       + SumOfSingleTotals(Tail(item_ids))

\* C25: the total of estimate_craft_time depends on the ids, not on their
\* order: for a non-empty list and every rearrangement of it
\* estimated_total_minutes and estimated_total_hours are equal, and the total
\* of a list is the sum of the totals of its ids taken alone.
C25_TotalIndependentOfOrder ==
  EstimateReturned =>
    /\ \A p \in Rearrangements(Len(call.args[1])) :
         LET other == _estimate_craft_time(Permuted(call.args[1], p),
                                           CRAFT_DATABASE).value
         IN  /\ other.estimated_total_minutes = result.value.estimated_total_minutes
             /\ other.estimated_total_hours = result.value.estimated_total_hours
    /\ result.value.estimated_total_minutes = SumOfSingleTotals(call.args[1])

(***************************************************************************)
(* The shape of every return value                                         *)
(***************************************************************************)
\* The value is a mapping with an "error" field holding a string, and nothing
\* else.
ErrorMapping(r) ==
  /\ r.type = "dict"
  /\ DOMAIN r.value = {"error"}
  /\ r.value.error \in STRING

\* The value is a success payload: a list of records, each with its "id", or
\* one mapping without an "error" field.
SuccessPayload(r) ==
  \/ /\ r.type = "list"
     /\ \A k \in 1..Len(r.value) : "id" \in DOMAIN r.value[k]
  \/ /\ r.type = "dict"
     /\ "error" \notin DOMAIN r.value

\* C22: no operation lets an exception escape: for every argument, malformed
\* ones included, each of the seven operations returns a list or a mapping,
\* and the value is either a success payload (a list of records, or a mapping
\* without an "error" field) or a mapping with an "error" field holding a
\* string, never both and never anything else.
C22_EveryReturnIsPayloadOrErrorMapping ==
  call # NoCall =>
    /\ result.type \in {"list", "dict"}
    /\ SuccessPayload(result) \/ ErrorMapping(result)
    /\ ~(SuccessPayload(result) /\ IsError(result))
    /\ IsError(result) => ErrorMapping(result)

\* Reached: a list given where the item id belongs; the TypeError of the
\* lookup comes back as an error mapping.
C22_Witness ==
  /\ Returned("_get_craft_details")
  /\ call.args[1].type = "list"
  /\ call.args[1].value # << >>
  /\ result =
       PyDict([error |-> "Failed to get craft details: unhashable type: 'list'"])

(***************************************************************************)
(* Calls that follow one another and calls that run at once                *)
(***************************************************************************)
\* What the operation returns for the arguments when it is the only call
\* (every operation but get_random_craft).
AloneResult(op, args) ==
  IF op = "list_craft_items" THEN _list_craft_items(CRAFT_DATABASE)
  ELSE IF op = "get_craft_details"
  THEN _get_craft_details(args[1], CRAFT_DATABASE, CRAFT_INSTRUCTIONS, CRAFT_TIPS)
  ELSE IF op = "search_crafts_by_category"
  THEN _search_crafts_by_category(args[1], CRAFT_DATABASE)
  ELSE IF op = "search_crafts_by_difficulty"
  THEN _search_crafts_by_difficulty(args[1], CRAFT_DATABASE)
  ELSE IF op = "search_crafts_by_materials"
  THEN _search_crafts_by_materials(args[1], CRAFT_DATABASE)
  ELSE _estimate_craft_time(args[1], CRAFT_DATABASE)

\* A value get_random_craft can return when it is the only call.
RandomOutcome(r) ==
  IF CRAFT_DATABASE = << >>
  THEN r = PyDict([error |-> "No crafts available in database"])
  ELSE \E i \in 1..Len(CRAFT_DATABASE) :
         r = _get_craft_details(CRAFT_DATABASE[i].key, CRAFT_DATABASE,
                                CRAFT_INSTRUCTIONS, CRAFT_TIPS)

\* The call in slot p has returned.
Done(p) == invocations[p].state = "done"

\* C21: every operation but get_random_craft is deterministic and independent
\* of what was called before: two calls of one operation with the same
\* arguments return equal results, whatever calls (get_random_craft and failing
\* calls among them) were made and answered between them.
C21_SameCallSameResult ==
  \A p, q \in 1..MaxInvocations :
    ( /\ Done(p) /\ Done(q)
      /\ invocations[p].op = invocations[q].op
      /\ invocations[p].op # "get_random_craft"
      /\ invocations[p].args = invocations[q].args )
    => invocations[p].result = invocations[q].result

\* Reached: two answers to estimate_craft_time(["painted_rock",
\* "paper_airplane"]), equal, both reporting 5 minutes.
C21_Witness ==
  /\ Done(1) /\ Done(2)
  /\ invocations[1].op = "estimate_craft_time"
  /\ invocations[2].op = "estimate_craft_time"
  /\ invocations[1].args = << << "painted_rock", "paper_airplane" >> >>
  /\ invocations[2].args = << << "painted_rock", "paper_airplane" >> >>
  /\ CRAFT_DATABASE = ShippedDatabase
  /\ invocations[1].result.value.estimated_total_minutes = 5
  /\ invocations[2].result = invocations[1].result

\* C23: calls that run at once need no locking: under every interleaving each
\* call returns what it returns when it is the only call, and while the loop
\* of estimate_craft_time runs its locals are what its own ids made them,
\* untouched by the other calls.
C23_ConcurrentCallsReturnAsAlone ==
  \A p \in 1..MaxInvocations :
    LET c == invocations[p]
    IN  /\ Done(p) =>
             IF c.op = "get_random_craft" THEN RandomOutcome(c.result)
             ELSE c.result = AloneResult(c.op, c.args)
        /\ (c.state = "running" /\ c.op = "estimate_craft_time") =>
             c.locals =
               EstimateLoop(EstimateLocals,
                            SubSeq(c.args[1], 1, Len(c.args[1]) - Len(c.rest)),
                            CRAFT_DATABASE)

\* Reached: one call of estimate_craft_time has returned 65 minutes while
\* another is in the middle of its loop.
C23_Witness ==
  /\ Done(1)
  /\ invocations[1].op = "estimate_craft_time"
  /\ invocations[1].args = << << "paper_airplane", "painted_rock" >> >>
  /\ CRAFT_DATABASE = ShippedDatabase
  /\ invocations[1].result.value.estimated_total_minutes = 65
  /\ invocations[2].state = "running"
  /\ invocations[2].op = "estimate_craft_time"
  /\ Len(invocations[2].rest) = 1
  /\ Len(invocations[2].args[1]) = 2

(***************************************************************************)
(* The chat clients                                                        *)
(***************************************************************************)
\* C26: in LangGraphCraftAgent the tokens streamed while a chat call is served
\* go to the stream_callback passed to that call and to no other: a call made
\* without a callback has its tokens handed to no callback, and a callback
\* never receives the tokens of another call on the same agent, be it earlier,
\* later or running at the same time.
C26_TokensGoToTheCallbackOfTheirCall ==
  \A d \in delivered :
    /\ d.passed # NoCallback
    /\ d.to = d.passed

\* The fixed text chat returns on an object that is not initialized.
NotInitializedText(on) ==
  IF on = "LangGraphCraftAgent" THEN "Agent not initialized"
  ELSE "Error: Assistant not properly initialized. Please run setup() first."

\* C27: a chat call on an assistant whose setup/initialize has not completed
\* successfully returns the fixed error text at once and does not run the MCP
\* agent; a chat call never ends with an exception: an agent run that raised
\* is answered with the "Sorry, I encountered an error" text, and every call
\* that has returned holds a string.
C27_ChatReturnsTextAndNeverRaises ==
  \A c \in 1..MaxChats :
    LET chat == chats[c]
    IN  /\ (chat.on # "none" /\ ~chat.ready) =>
             /\ chat.state = "returned"
             /\ chat.agent_runs = 0
             /\ chat.response = NotInitializedText(chat.on)
        /\ chat.state \in {"idle", "ainvoke", "agent_running", "answered", "returned"}
        /\ chat.state = "returned" => chat.response \in STRING
        /\ (chat.agent_outcome = "Exception" /\ chat.on = "CraftAssistant") =>
             /\ chat.state = "returned"
             /\ chat.response = SorryText
        /\ (chat.agent_outcome = "Exception" /\ chat.state = "answered") =>
             chat.response = SorryText

\* Reached: initialize() failed in _build_graph, so the MCP agent is there and
\* the graph is not; the chat call is answered with the fixed text.
C27_Witness ==
  /\ LangGraphCraftAgent.mcp_agent = "MCPAgent"
  /\ LangGraphCraftAgent.graph_app = "None"
  /\ chats[1].on = "LangGraphCraftAgent"
  /\ chats[1].state = "returned"
  /\ chats[1].response = "Agent not initialized"
  /\ chats[2].on = "CraftAssistant"
  /\ chats[2].agent_outcome = "Exception"
  /\ chats[2].response = SorryText

\* C28: both interactive chat loops end cleanly: once the user has entered a
\* quit word, has interrupted, or the input stream has ended, the loop is left
\* (cleanup is next or the session function has returned) and no message is
\* forwarded to the agent any more; when the session function has returned,
\* close_all_sessions has run exactly once; a blank line is never forwarded.
C28_SessionEndsCleanly ==
  session.kind # "none" =>
    /\ session.ended # "no" => session.pc \in {"cleanup", "returned"}
    /\ session.pc = "chat" => session.ended = "no"
    /\ session.pc = "returned" => session.closed = 1
    /\ session.closed <= 1
    /\ \A k \in 1..Len(session.forwarded) : Strip(session.forwarded[k]) # ""

====
